---- MODULE Spec2Model ----
(***************************************************************************)
(* Model of the Redmine multi-repository configuration layer:              *)
(*   - SecretsResolver        (src/src/config/secrets-resolver.ts)         *)
(*   - RedmineConfigSchema    (src/src/config/types.ts)                    *)
(*   - RedmineRepositoryManager (src/src/config/redmine-repository-manager.ts) *)
(*   - RedmineFieldResolver   (src/src/redmine/field-resolver.ts)          *)
(* Strings are TLA+ strings, i.e. sequences of characters: Len, \o and     *)
(* SubSeq are the only primitives used on them.                            *)
(***************************************************************************)
EXTENDS Integers, Sequences, FiniteSets, TLC

VARIABLES
  env,          \* process.env: variable name -> value (a name outside the domain is undefined)
  files,        \* the file system: path -> content
  config,       \* RedmineRepositoryManager.config
  apiKeyCache,  \* RedmineRepositoryManager.apiKeyCache
  probes,       \* testConnection calls suspended at axios.get
  last,         \* what the last manager operation did and returned
  cache,        \* RedmineFieldResolver.cache
  calls,        \* resolveField calls suspended at axios.get
  flast,        \* what the last field-resolver step returned
  tool          \* the tool call the server is handling: its position and its requests

mgrVars == <<env, files, config, apiKeyCache, probes, last>>
fieldVars == <<cache, calls, flast, tool>>
vars == <<env, files, config, apiKeyCache, probes, last, cache, calls, flast, tool>>

(***************************************************************************)
(* String helpers (JavaScript String primitives)                           *)
(***************************************************************************)
Ch(s, i) == SubSeq(s, i, i)

\* s.substring(i - 1) in 1-based positions
From(s, i) == SubSeq(s, i, Len(s))

\* s.startsWith(t)
StartsWith(s, t) == Len(t) <= Len(s) /\ SubSeq(s, 1, Len(t)) = t

\* s.endsWith(t)
EndsWith(s, t) == Len(t) <= Len(s) /\ SubSeq(s, Len(s) - Len(t) + 1, Len(s)) = t

\* t occurs in s at position i
OccursAt(s, t, i) == i >= 1 /\ i + Len(t) - 1 <= Len(s) /\ SubSeq(s, i, i + Len(t) - 1) = t

\* s.includes(t)
Includes(s, t) == \E i \in 1..(Len(s) - Len(t) + 1) : OccursAt(s, t, i)

\* the characters of s, as a set
CharSet(s) == {Ch(s, i) : i \in 1..Len(s)}

UpperChars == "ABCDEFGHIJKLMNOPQRSTUVWXYZ"
LowerChars == "abcdefghijklmnopqrstuvwxyz"
UpperSet == CharSet(UpperChars)
LowerOf == [c \in UpperSet |->
              Ch(LowerChars, CHOOSE i \in 1..Len(UpperChars) : Ch(UpperChars, i) = c)]

LowerCh(c) == IF c \in UpperSet THEN LowerOf[c] ELSE c

RECURSIVE ToLowerFrom(_, _)
ToLowerFrom(s, i) ==
  IF i > Len(s) THEN "" ELSE LowerCh(Ch(s, i)) \o ToLowerFrom(s, i + 1)

\* s.toLowerCase()
ToLowerCase(s) == ToLowerFrom(s, 1)

IsSpace(c) == c \in {" ", "\t", "\n", "\r"}

RECURSIVE TrimStart(_)
TrimStart(s) ==
  IF Len(s) > 0 /\ IsSpace(Ch(s, 1)) THEN TrimStart(From(s, 2)) ELSE s

RECURSIVE TrimEnd(_)
TrimEnd(s) ==
  IF Len(s) > 0 /\ IsSpace(Ch(s, Len(s))) THEN TrimEnd(SubSeq(s, 1, Len(s) - 1)) ELSE s

\* s.trim()
Trim(s) == TrimEnd(TrimStart(s))

RECURSIVE Join(_, _)
\* parts.join(sep)
Join(parts, sep) ==
  IF Len(parts) = 0 THEN ""
  ELSE IF Len(parts) = 1 THEN parts[1]
  ELSE parts[1] \o sep \o Join(Tail(parts), sep)

\* a Map as a function with a growing domain
EmptyMap == [k \in {} |-> ""]
MapSet(m, k, v) == [x \in (DOMAIN m) \cup {k} |-> IF x = k THEN v ELSE m[x]]
Has(r, f) == f \in DOMAIN r

(***************************************************************************)
(* SecretsResolver                                                         *)
(***************************************************************************)
DigitChars == "0123456789"

RECURSIVE NatToStr(_)
\* String(n) for a natural number n
NatToStr(n) ==
  IF n < 10 THEN Ch(DigitChars, n + 1)
  ELSE NatToStr(n \div 10) \o Ch(DigitChars, (n % 10) + 1)

RECURSIVE IndexOfCh(_, _, _)
\* least position j >= i of character c in s, 0 when there is none
IndexOfCh(s, c, i) ==
  IF i > Len(s) THEN 0
  ELSE IF Ch(s, i) = c THEN i
  ELSE IndexOfCh(s, c, i + 1)

\* end position of a match of /\$\{([^}]+)\}/ starting at i, 0 when there is none
PlaceholderEnd(s, i) ==
  IF OccursAt(s, "${", i)
    THEN LET j == IndexOfCh(s, "}", i + 2) IN IF j >= i + 3 THEN j ELSE 0
    ELSE 0

\* value.match(pattern) is not null
HasPlaceholder(s) == \E i \in 1..Len(s) : PlaceholderEnd(s, i) # 0

RECURSIVE ResolveScan(_, _, _)
\* value.replace(pattern, callback) from position i on: the text and the missing names
ResolveScan(s, i, e) ==
  IF i > Len(s) THEN [out |-> "", missing |-> <<>>]
  ELSE LET j == PlaceholderEnd(s, i) IN
    IF j = 0
      THEN LET rest == ResolveScan(s, i + 1, e) IN
           [out |-> Ch(s, i) \o rest.out, missing |-> rest.missing]
      ELSE LET varName == SubSeq(s, i + 2, j - 1)
               rest == ResolveScan(s, j + 1, e) IN
           IF varName \in DOMAIN e
             THEN [out |-> e[varName] \o rest.out, missing |-> rest.missing]
             ELSE [out |-> SubSeq(s, i, j) \o rest.out, missing |-> <<varName>> \o rest.missing]

\* mutant of ResolveOutcome: the error names the first missing variable only
ResolveOutcomeFirstOnly(r) ==
  IF Len(r.missing) > 0
    THEN [ok |-> FALSE, value |-> "", missing |-> r.missing,
          message |-> "Environment variable(s) not defined: " \o Head(r.missing)
                      \o ". Set them in your .env file or environment."]
    ELSE [ok |-> TRUE, value |-> r.out, missing |-> <<>>, message |-> ""]

\* the end of resolve: r is the text after replacement and the names not defined
ResolveOutcome(r) ==
  IF Len(r.missing) > 0
    THEN [ok |-> FALSE, value |-> "", missing |-> r.missing,
          message |-> "Environment variable(s) not defined: " \o Join(r.missing, ", ")
                      \o ". Set them in your .env file or environment."]
    ELSE [ok |-> TRUE, value |-> r.out, missing |-> <<>>, message |-> ""]

\* SecretsResolver.resolve(value) under environment e
Resolve(value, e) ==
  IF value = ""
    THEN [ok |-> FALSE, value |-> "", missing |-> <<>>,
          message |-> "Cannot resolve empty value"]
  ELSE IF ~HasPlaceholder(value)
    THEN [ok |-> TRUE, value |-> value, missing |-> <<>>, message |-> ""]
  ELSE ResolveOutcome(ResolveScan(value, 1, e))

MinKeyLength == 16

\* /^word[_-]?/i and /^word/i on the lower-cased key l: the optional separator
\* never decides the test
StartsWithI(l, word) == StartsWith(l, word)

\* /^x{3,}/i on the lower-cased key l
StartsWithXXX(l) == StartsWith(l, "xxx")

\* /^replace[_-]?me/i on the lower-cased key l
StartsWithReplaceMe(l) ==
  \/ StartsWith(l, "replaceme")
  \/ StartsWith(l, "replace_me")
  \/ StartsWith(l, "replace-me")

\* /<[^>]+>/
HasAngleToken(s) ==
  \E i \in 1..Len(s) :
    /\ Ch(s, i) = "<"
    /\ IndexOfCh(s, ">", i + 1) >= i + 2

\* /\[.*\]/ ('.' does not match a line terminator)
HasBracketToken(s) ==
  \E i \in 1..Len(s) :
    /\ Ch(s, i) = "["
    /\ \E j \in (i + 1)..Len(s) :
         /\ Ch(s, j) = "]"
         /\ \A k \in (i + 1)..(j - 1) : Ch(s, k) \notin {"\n", "\r"}

\* mutant of MatchesPlaceholderPattern: the word patterns are not anchored
MatchesPlaceholderPatternAnywhere(s) ==
  \/ \E word \in {"your", "example", "test", "dummy", "placeholder", "xxx", "changeme",
                   "replaceme", "replace_me", "replace-me"} :
       Includes(ToLowerCase(s), word)
  \/ HasAngleToken(s)
  \/ HasBracketToken(s)

\* some pattern of PLACEHOLDER_PATTERNS tests true; the anchored patterns look at no
\* more than the first 11 characters ("placeholder")
MatchesPlaceholderPattern(s) ==
  LET l == ToLowerCase(SubSeq(s, 1, IF Len(s) < 11 THEN Len(s) ELSE 11)) IN
    \/ StartsWithI(l, "your")
    \/ StartsWithI(l, "example")
    \/ StartsWithI(l, "test")
    \/ StartsWithI(l, "dummy")
    \/ StartsWithI(l, "placeholder")
    \/ StartsWithXXX(l)
    \/ StartsWithI(l, "changeme")
    \/ StartsWithReplaceMe(l)
    \/ HasAngleToken(s)
    \/ HasBracketToken(s)

\* mutant of Validate: the placeholder patterns are tested before the '${' check
ValidatePatternsFirst(apiKey) ==
  IF Len(apiKey) < MinKeyLength
    THEN [valid |-> FALSE, kind |-> "short",
          error |-> "API key too short (" \o NatToStr(Len(apiKey))
                    \o " chars, minimum 16 required)"]
  ELSE IF MatchesPlaceholderPattern(apiKey)
    THEN [valid |-> FALSE, kind |-> "placeholder",
          error |-> "API key appears to be a placeholder or example value. Replace it with your actual API key."]
  ELSE IF Includes(apiKey, "${")
    THEN [valid |-> FALSE, kind |-> "unresolved",
          error |-> "API key contains unresolved environment variable reference. Ensure all referenced variables are defined."]
  ELSE [valid |-> TRUE, kind |-> "ok", error |-> ""]

\* SecretsResolver.validate(apiKey)
Validate(apiKey) ==
  IF Len(apiKey) < MinKeyLength
    THEN [valid |-> FALSE, kind |-> "short",
          error |-> "API key too short (" \o NatToStr(Len(apiKey))
                    \o " chars, minimum 16 required)"]
  ELSE IF Includes(apiKey, "${")
    THEN [valid |-> FALSE, kind |-> "unresolved",
          error |-> "API key contains unresolved environment variable reference. Ensure all referenced variables are defined."]
  ELSE IF MatchesPlaceholderPattern(apiKey)
    THEN [valid |-> FALSE, kind |-> "placeholder",
          error |-> "API key appears to be a placeholder or example value. Replace it with your actual API key."]
  ELSE [valid |-> TRUE, kind |-> "ok", error |-> ""]

MaskPrefixLength == 4

\* mutant of Mask: a short key shows its characters
MaskShowingShortKeys(apiKey) ==
  IF apiKey = "" THEN "****"
  ELSE IF Len(apiKey) <= MaskPrefixLength THEN apiKey \o "***"
  ELSE SubSeq(apiKey, 1, MaskPrefixLength) \o "***"

\* SecretsResolver.mask(apiKey)
Mask(apiKey) ==
  IF apiKey = "" THEN "****"
  ELSE IF Len(apiKey) <= MaskPrefixLength THEN "****"
  ELSE SubSeq(apiKey, 1, MaskPrefixLength) \o "***"

RegexSpecials == CharSet(".*+?^${}()|[]\\")

RECURSIVE EscapeRegex(_)
\* secret.replace(/[.*+?^${}()|[\]\\]/g, '\\$&')
EscapeRegex(s) ==
  IF Len(s) = 0 THEN ""
  ELSE (IF Ch(s, 1) \in RegexSpecials THEN "\\" \o Ch(s, 1) ELSE Ch(s, 1))
       \o EscapeRegex(From(s, 2))

RECURSIVE CompileRegex(_)
\* new RegExp(source, 'g') as a sequence of one-character atoms: a backslash makes the
\* next character a literal, an unescaped '.' matches any character but a line
\* terminator, any other character matches itself
CompileRegex(src) ==
  IF Len(src) = 0 THEN <<>>
  ELSE IF Ch(src, 1) = "\\" /\ Len(src) >= 2
    THEN <<[any |-> FALSE, c |-> Ch(src, 2)]>> \o CompileRegex(From(src, 3))
  ELSE IF Ch(src, 1) = "."
    THEN <<[any |-> TRUE, c |-> "."]>> \o CompileRegex(From(src, 2))
  ELSE <<[any |-> FALSE, c |-> Ch(src, 1)]>> \o CompileRegex(From(src, 2))

\* the regex matches s at position i
RegexMatchesAt(atoms, s, i) ==
  /\ i + Len(atoms) - 1 <= Len(s)
  /\ \A k \in 1..Len(atoms) :
       IF atoms[k].any THEN Ch(s, i + k - 1) \notin {"\n", "\r"}
       ELSE Ch(s, i + k - 1) = atoms[k].c

RECURSIVE GetSubstitution(_, _, _, _)
\* ECMAScript GetSubstitution for a pattern without capture groups: the expansion of
\* the replacement template repl for the match `matched` found in str at position pos
GetSubstitution(repl, matched, str, pos) ==
  IF Len(repl) = 0 THEN ""
  ELSE IF Ch(repl, 1) = "$" /\ Len(repl) >= 2
    THEN LET n == Ch(repl, 2)
             rest == GetSubstitution(From(repl, 3), matched, str, pos) IN
         IF n = "$" THEN "$" \o rest
         ELSE IF n = "&" THEN matched \o rest
         ELSE IF n = "`" THEN SubSeq(str, 1, pos - 1) \o rest
         ELSE IF n = "'" THEN From(str, pos + Len(matched)) \o rest
         ELSE "$" \o GetSubstitution(From(repl, 2), matched, str, pos)
  ELSE Ch(repl, 1) \o GetSubstitution(From(repl, 2), matched, str, pos)

RECURSIVE ReplaceScan(_, _, _, _)
\* str.replace(regex, repl) with the g flag, from position i on
ReplaceScan(str, i, atoms, repl) ==
  IF i > Len(str) THEN ""
  ELSE IF Len(atoms) > 0 /\ RegexMatchesAt(atoms, str, i)
    THEN GetSubstitution(repl, SubSeq(str, i, i + Len(atoms) - 1), str, i)
         \o ReplaceScan(str, i + Len(atoms), atoms, repl)
  ELSE Ch(str, i) \o ReplaceScan(str, i + 1, atoms, repl)

\* one turn of the loop of redactFromText
RedactOne(text, secret) ==
  IF secret = "" THEN text
  ELSE ReplaceScan(text, 1, CompileRegex(EscapeRegex(secret)), Mask(secret))

RECURSIVE RedactLoop(_, _)
RedactLoop(text, secrets) ==
  IF Len(secrets) = 0 THEN text
  ELSE RedactLoop(RedactOne(text, Head(secrets)), Tail(secrets))

\* SecretsResolver.redactFromText(text, secrets)
RedactFromText(text, secrets) ==
  IF text = "" \/ Len(secrets) = 0 THEN text ELSE RedactLoop(text, secrets)

\* the end of resolveAndValidate: v is the validation of the resolved text
ValidatedOutcome(resolved, v) ==
  IF ~v.valid
    THEN [ok |-> FALSE, value |-> "", kind |-> "validate",
          message |-> "Invalid API key: " \o v.error]
    ELSE [ok |-> TRUE, value |-> resolved, kind |-> "ok", message |-> ""]

\* resolveAndValidate after resolve returned or threw r
ResolvedOutcome(r) ==
  IF ~r.ok THEN [ok |-> FALSE, value |-> "", kind |-> "resolve", message |-> r.message]
  ELSE ValidatedOutcome(r.value, Validate(r.value))

\* SecretsResolver.resolveAndValidate(value) under environment e
ResolveAndValidate(value, e) == ResolvedOutcome(Resolve(value, e))

(***************************************************************************)
(* RedmineConfigSchema (zod). A raw JSON object is a record; a key the     *)
(* JSON text omits is a field the record does not have.                    *)
(***************************************************************************)
SecretSources == {"environment", "aws-secrets-manager", "vault", "azure-keyvault"}

IdChars == CharSet("abcdefghijklmnopqrstuvwxyz0123456789-_")

\* /^[a-z0-9-_]+$/.test(id)
IdRegexOk(id) == Len(id) >= 1 /\ \A i \in 1..Len(id) : Ch(id, i) \in IdChars

SchemeChars == CharSet("abcdefghijklmnopqrstuvwxyzABCDEFGHIJKLMNOPQRSTUVWXYZ0123456789+.-")

RECURSIVE StripSlashes(_)
StripSlashes(s) ==
  IF Len(s) > 0 /\ Ch(s, 1) \in {"/", "\\"} THEN StripSlashes(From(s, 2)) ELSE s

\* z.string().url(): new URL(u) does not throw. A scheme, and for http(s) a host.
IsValidUrl(u) ==
  LET colon == IndexOfCh(u, ":", 1) IN
    /\ colon >= 2
    /\ \A i \in 1..(colon - 1) : Ch(u, i) \in SchemeChars
    /\ Ch(u, 1) \notin CharSet(DigitChars \o "+.-")
    /\ (ToLowerCase(SubSeq(u, 1, colon - 1)) \in {"http", "https"}
          => LET host == StripSlashes(From(u, colon + 1)) IN
               Len(host) > 0 /\ Ch(host, 1) \notin {"?", "#", ":"})

\* mutant of RepositoryIssue: the url refinement is missing
RepositoryIssueAnyUrlEnd(r) ==
  IF ~Has(r, "id") THEN "Required"
  ELSE IF Len(r.id) < 1 THEN "Repository id is required"
  ELSE IF ~IdRegexOk(r.id) THEN "Repository id must be lowercase alphanumeric with - or _"
  ELSE IF ~Has(r, "displayName") THEN "Required"
  ELSE IF Len(r.displayName) < 1 THEN "displayName is required"
  ELSE IF ~Has(r, "url") THEN "Required"
  ELSE IF ~IsValidUrl(r.url) THEN "Invalid URL format"
  ELSE IF ~Has(r, "apiKey") THEN "Required"
  ELSE IF Len(r.apiKey) < 1 THEN "apiKey is required"
  ELSE IF ~Has(r, "secretSource") THEN "Required"
  ELSE IF r.secretSource \notin SecretSources THEN "Invalid enum value"
  ELSE ""

\* the first issue RedmineRepositorySchema raises on raw repository r, "" when none
RepositoryIssue(r) ==
  IF ~Has(r, "id") THEN "Required"
  ELSE IF Len(r.id) < 1 THEN "Repository id is required"
  ELSE IF ~IdRegexOk(r.id) THEN "Repository id must be lowercase alphanumeric with - or _"
  ELSE IF ~Has(r, "displayName") THEN "Required"
  ELSE IF Len(r.displayName) < 1 THEN "displayName is required"
  ELSE IF ~Has(r, "url") THEN "Required"
  ELSE IF ~IsValidUrl(r.url) THEN "Invalid URL format"
  ELSE IF EndsWith(r.url, "/") THEN "URL should not end with slash"
  ELSE IF ~Has(r, "apiKey") THEN "Required"
  ELSE IF Len(r.apiKey) < 1 THEN "apiKey is required"
  ELSE IF ~Has(r, "secretSource") THEN "Required"
  ELSE IF r.secretSource \notin SecretSources THEN "Invalid enum value"
  ELSE ""

\* the output of RedmineRepositorySchema for a raw repository without issue
ParsedRepository(r) ==
  [id |-> r.id, displayName |-> r.displayName, url |-> r.url, apiKey |-> r.apiKey,
   secretSource |-> r.secretSource,
   enabled |-> IF Has(r, "enabled") THEN r.enabled ELSE TRUE]

\* the first issue of each element of the repositories array, in order
RepositoryIssues(repos) == [i \in 1..Len(repos) |-> RepositoryIssue(repos[i])]

\* the first entry of issues that is an issue, "" when there is none
FirstIssue(issues) ==
  IF \E i \in 1..Len(issues) : issues[i] # ""
    THEN issues[CHOOSE i \in 1..Len(issues) :
                  issues[i] # "" /\ \A j \in 1..(i - 1) : issues[j] = ""]
    ELSE ""

\* the first issue RedmineConfigSchema raises on raw document d, "" when none
ConfigIssue(d) ==
  IF ~Has(d, "configVersion") THEN "Required"
  ELSE IF Len(d.configVersion) < 1 THEN "configVersion is required"
  ELSE IF ~Has(d, "repositories") THEN "Required"
  ELSE IF Len(d.repositories) < 1 THEN "At least one repository is required"
  ELSE FirstIssue(RepositoryIssues(d.repositories))

\* the result of RedmineConfigSchema.parse(d) when the first issue is `issue`
SchemaOutcome(d, issue) ==
  IF issue # "" THEN [ok |-> FALSE, issue |-> issue]
  ELSE [ok |-> TRUE, issue |-> "",
        doc |-> [configVersion |-> d.configVersion,
                 repositories |-> [i \in 1..Len(d.repositories) |->
                                     ParsedRepository(d.repositories[i])]]
                @@ (IF Has(d, "defaultRepositoryId")
                      THEN [defaultRepositoryId |-> d.defaultRepositoryId]
                      ELSE EmptyMap)]

\* RedmineConfigSchema.parse(d): the parsed document, or the failure
SchemaParse(d) == SchemaOutcome(d, ConfigIssue(d))

(***************************************************************************)
(* RedmineRepositoryManager                                                *)
(***************************************************************************)
Cwd == "/work"
HomeDir == "/home/u"

\* path.join(a, b)
PathJoin(a, b) == IF StartsWith(b, "/") THEN a \o b ELSE a \o "/" \o b

\* expandHome(p)
ExpandHome(p) == IF StartsWith(p, "~") THEN PathJoin(HomeDir, From(p, 2)) ELSE p

LocalPath == PathJoin(Cwd, "redmine-repositories.local.json")
DefaultPath == PathJoin(Cwd, "redmine-repositories.json")
HomePath == PathJoin(PathJoin(HomeDir, ".mcp-integrated-search"), "redmine-repositories.json")

Absent == [kind |-> "absent"]
Garbage == [kind |-> "garbage"]
JsonFile(d) == [kind |-> "json", doc |-> d]

\* fileExists(p) on file system f
FileExists(f, p) == p \in DOMAIN f /\ f[p].kind # "absent"

\* process.env[name] is truthy
EnvTruthy(e, name) == name \in DOMAIN e /\ e[name] # ""

\* mutant of Candidates: the committed file is looked at before the local override
CandidatesDefaultFirst(e) ==
  (IF EnvTruthy(e, "REDMINE_CONFIG_PATH") /\ ExpandHome(e["REDMINE_CONFIG_PATH"]) # ""
     THEN <<ExpandHome(e["REDMINE_CONFIG_PATH"])>> ELSE <<>>)
  \o <<DefaultPath, LocalPath, HomePath>>

\* [explicitPath, localPath, defaultPath, homePath].filter(Boolean)
Candidates(e) ==
  (IF EnvTruthy(e, "REDMINE_CONFIG_PATH") /\ ExpandHome(e["REDMINE_CONFIG_PATH"]) # ""
     THEN <<ExpandHome(e["REDMINE_CONFIG_PATH"])>> ELSE <<>>)
  \o <<LocalPath, DefaultPath, HomePath>>

NoConfig == [undefined |-> TRUE]
NoRepo == [undefined |-> TRUE]

\* loadConfig after RedmineConfigSchema.parse returned or threw `parsed`
LoadOutcome(parsed, read, legacy) ==
  IF parsed.ok
    THEN [status |-> "ok", doc |-> parsed.doc, read |-> read, legacy |-> legacy]
    ELSE [status |-> "schema_error", doc |-> NoConfig, read |-> read, legacy |-> legacy]

\* the body of the loop of loadConfig for an existing candidate p: read, parse, validate
ReadCandidate(f, p) ==
  IF f[p].kind = "garbage"
    THEN [status |-> "parse_error", doc |-> NoConfig, read |-> <<p>>, legacy |-> FALSE]
    ELSE LoadOutcome(SchemaParse(f[p].doc), <<p>>, FALSE)

\* legacyUrl.replace(/\/$/, '')
StripTrailingSlash(u) == IF EndsWith(u, "/") THEN SubSeq(u, 1, Len(u) - 1) ELSE u

\* the repository of the legacy document
LegacyRepository(e) ==
  [id |-> "legacy",
   displayName |-> "Legacy Redmine",
   url |-> StripTrailingSlash(e["REDMINE_URL"]),
   apiKey |-> "${REDMINE_API_KEY}",
   secretSource |-> "environment",
   enabled |-> TRUE]

\* mutant of LegacyFallback: the synthesized document declares no default
LegacyFallbackNoDefault(e) ==
  IF EnvTruthy(e, "REDMINE_URL") /\ EnvTruthy(e, "REDMINE_API_KEY")
    THEN LoadOutcome(SchemaParse([configVersion |-> "1.0",
                                  repositories |-> <<LegacyRepository(e)>>]),
                     <<>>, TRUE)
    ELSE [status |-> "no_config", doc |-> NoConfig, read |-> <<>>, legacy |-> FALSE]

\* step 5 of loadConfig: the legacy environment fallback
LegacyFallback(e) ==
  IF EnvTruthy(e, "REDMINE_URL") /\ EnvTruthy(e, "REDMINE_API_KEY")
    THEN LoadOutcome(SchemaParse([configVersion |-> "1.0",
                                  defaultRepositoryId |-> "legacy",
                                  repositories |-> <<LegacyRepository(e)>>]),
                     <<>>, TRUE)
    ELSE [status |-> "no_config", doc |-> NoConfig, read |-> <<>>, legacy |-> FALSE]

RECURSIVE LoadFromSkipBad(_, _, _)
\* mutant of LoadFrom: a candidate that fails to parse or validate is skipped
LoadFromSkipBad(cands, f, e) ==
  IF Len(cands) = 0 THEN LegacyFallback(e)
  ELSE IF FileExists(f, Head(cands)) /\ ReadCandidate(f, Head(cands)).status = "ok"
    THEN ReadCandidate(f, Head(cands))
  ELSE LoadFromSkipBad(Tail(cands), f, e)

RECURSIVE LoadFrom(_, _, _)
\* the loop of loadConfig over the candidates cands, then the fallback
LoadFrom(cands, f, e) ==
  IF Len(cands) = 0 THEN LegacyFallback(e)
  ELSE IF FileExists(f, Head(cands)) THEN ReadCandidate(f, Head(cands))
  ELSE LoadFrom(Tail(cands), f, e)

\* loadConfig(): its outcome on file system f and environment e
LoadConfigR(f, e) == LoadFrom(Candidates(e), f, e)

\* getConfig() when no document is held: r is the outcome of loadConfig
ConfigAfterLoad(cfg, r) ==
  [status |-> r.status, cfg |-> IF r.status = "ok" THEN r.doc ELSE cfg,
   loaded |-> TRUE, read |-> r.read, legacy |-> r.legacy]

\* mutant of GetConfigR: discovery runs on every call
GetConfigRAlwaysLoading(cfg, f, e) == ConfigAfterLoad(cfg, LoadConfigR(f, e))

\* getConfig(): the outcome, the document held afterwards, whether discovery ran
GetConfigR(cfg, f, e) ==
  IF cfg = NoConfig
    THEN ConfigAfterLoad(cfg, LoadConfigR(f, e))
    ELSE [status |-> "ok", cfg |-> cfg, loaded |-> FALSE, read |-> <<>>,
          legacy |-> FALSE]

\* an optional argument: <<>> when omitted, <<v>> when given
Omitted == <<>>
Given(v) == <<v>>

\* mutant of TargetId: the declared default is ignored
TargetIdFirstRecord(cfg, idArg) ==
  IF idArg # Omitted THEN idArg
  ELSE IF Len(cfg.repositories) > 0 THEN Given(cfg.repositories[1].id)
  ELSE Omitted

\* id ?? cfg.defaultRepositoryId ?? cfg.repositories[0]?.id, <<>> when undefined
TargetId(cfg, idArg) ==
  IF idArg # Omitted THEN idArg
  ELSE IF Has(cfg, "defaultRepositoryId") THEN Given(cfg.defaultRepositoryId)
  ELSE IF Len(cfg.repositories) > 0 THEN Given(cfg.repositories[1].id)
  ELSE Omitted

\* cfg.repositories.find((r) => r.id === targetId): the position, 0 when none
FindRepository(cfg, targetId) ==
  IF \E i \in 1..Len(cfg.repositories) : cfg.repositories[i].id = targetId
    THEN CHOOSE i \in 1..Len(cfg.repositories) :
           /\ cfg.repositories[i].id = targetId
           /\ \A j \in 1..(i - 1) : cfg.repositories[j].id # targetId
    ELSE 0

\* mutant of SelectRepository: the enabled flag is not looked at
SelectRepositoryAnyFlag(cfg, idArg) ==
  LET t == TargetId(cfg, idArg) IN
    IF t = Omitted \/ t = Given("")
      THEN [status |-> "no_repositories", repo |-> NoRepo,
            message |-> "No repositories defined in configuration"]
    ELSE LET i == FindRepository(cfg, t[1]) IN
      IF i = 0
        THEN [status |-> "not_found", repo |-> NoRepo,
              message |-> "Repository '" \o t[1] \o "' not found. Available: "
                          \o Join([k \in 1..Len(cfg.repositories) |-> cfg.repositories[k].id], ", ")]
      ELSE [status |-> "ok", repo |-> cfg.repositories[i], message |-> ""]

\* the part of getRepository after getConfig, on document cfg
SelectRepository(cfg, idArg) ==
  LET t == TargetId(cfg, idArg) IN
    IF t = Omitted \/ t = Given("")
      THEN [status |-> "no_repositories", repo |-> NoRepo,
            message |-> "No repositories defined in configuration"]
    ELSE LET i == FindRepository(cfg, t[1]) IN
      IF i = 0
        THEN [status |-> "not_found", repo |-> NoRepo,
              message |-> "Repository '" \o t[1] \o "' not found. Available: "
                          \o Join([k \in 1..Len(cfg.repositories) |-> cfg.repositories[k].id], ", ")]
      ELSE IF ~cfg.repositories[i].enabled
        THEN [status |-> "disabled", repo |-> NoRepo,
              message |-> "Repository '" \o t[1] \o "' is disabled"]
      ELSE [status |-> "ok", repo |-> cfg.repositories[i], message |-> ""]

\* the outcome r of a lookup together with what getConfig did (c)
LookupOutcome(c, r) ==
  [status |-> r.status, repo |-> r.repo, message |-> r.message, cfg |-> c.cfg,
   loaded |-> c.loaded, read |-> c.read]

\* getRepository(id) after getConfig returned or threw c
GetRepositoryIn(c, idArg) ==
  IF c.status # "ok"
    THEN LookupOutcome(c, [status |-> c.status, repo |-> NoRepo, message |-> ""])
    ELSE LookupOutcome(c, SelectRepository(c.cfg, idArg))

\* getRepository(id): the outcome and the document held afterwards
GetRepositoryR(cfg, f, e, idArg) == GetRepositoryIn(GetConfigR(cfg, f, e), idArg)

\* an outcome of getResolvedApiKey after getRepository returned or threw g
KeyOutcome(g, status, key, message, keys) ==
  [status |-> status, key |-> key, message |-> message,
   repo |-> IF status = "ok" THEN g.repo ELSE NoRepo,
   cfg |-> g.cfg, keys |-> keys, loaded |-> g.loaded, read |-> g.read]

\* getResolvedApiKey on a cache miss: rv is the outcome of resolveAndValidate
KeyResolved(g, keys, rv) ==
  IF ~rv.ok
    THEN KeyOutcome(g, IF rv.kind = "resolve" THEN "resolve_error" ELSE "invalid_key",
                    "", rv.message, keys)
    ELSE KeyOutcome(g, "ok", rv.value, "", MapSet(keys, g.repo.id, rv.value))

\* getResolvedApiKey without the cache check
KeyUncached(g, keys, e) ==
  IF g.status # "ok" THEN KeyOutcome(g, g.status, "", g.message, keys)
  ELSE KeyResolved(g, keys, ResolveAndValidate(g.repo.apiKey, e))

\* mutant of GetResolvedApiKeyR: the cache is written but never consulted
GetResolvedApiKeyUncached(cfg, keys, f, e, idArg) ==
  KeyUncached(GetRepositoryR(cfg, f, e, idArg), keys, e)

\* getResolvedApiKey(repoId) after getRepository returned or threw g
KeyFor(g, keys, e) ==
  IF g.status # "ok" THEN KeyOutcome(g, g.status, "", g.message, keys)
  ELSE IF g.repo.id \in DOMAIN keys /\ keys[g.repo.id] # ""
    THEN KeyOutcome(g, "ok", keys[g.repo.id], "", keys)
  ELSE KeyResolved(g, keys, ResolveAndValidate(g.repo.apiKey, e))

\* getResolvedApiKey(repoId): the outcome, the document and the cache held afterwards
GetResolvedApiKeyR(cfg, keys, f, e, idArg) ==
  KeyFor(GetRepositoryR(cfg, f, e, idArg), keys, e)

\* testConnection(repoId) after its own getRepository returned or threw g
ProbeKeyFor(g, keys, f, e) ==
  IF g.status # "ok" THEN KeyOutcome(g, g.status, "", g.message, keys)
  ELSE [GetResolvedApiKeyR(g.cfg, keys, f, e, Given(g.repo.id))
          EXCEPT !.loaded = g.loaded, !.read = g.read]

\* testConnection(repoId) up to the await of axios.get
TestConnectionBegin(cfg, keys, f, e, idArg) ==
  ProbeKeyFor(GetRepositoryR(cfg, f, e, idArg), keys, f, e)

\* an axios.get outcome: a response with or without the x-redmine-version header,
\* or a rejection whose error carries `text` as its message
HttpOk(version) == [ok |-> TRUE, version |-> version, text |-> ""]
HttpError(text) == [ok |-> FALSE, version |-> Omitted, text |-> text]

\* mutant of TestConnectionEnd: a rejected request is reported as a success
TestConnectionEndOptimistic(apiKey, resp) ==
  [success |-> TRUE, message |-> "Connection successful", version |-> resp.version]

\* testConnection after the await: the ConnectionTestResult for outcome resp
TestConnectionEnd(apiKey, resp) ==
  IF resp.ok
    THEN [success |-> TRUE, message |-> "Connection successful", version |-> resp.version]
    ELSE [success |-> FALSE,
          message |-> "Connection failed: " \o RedactFromText(resp.text, <<apiKey>>),
          version |-> Omitted]

(***************************************************************************)
(* Manager operations as actions. `last` records the operation, its        *)
(* argument and what it returned or threw.                                 *)
(***************************************************************************)
LastBase ==
  [op |-> "none", arg |-> Omitted, status |-> "", thrown |-> FALSE, repo |-> NoRepo,
   key |-> "", message |-> "", loaded |-> FALSE, read |-> <<>>, legacy |-> FALSE,
   success |-> FALSE, version |-> Omitted, resp |-> Omitted]

\* loadConfig()
LoadConfig ==
  LET r == LoadConfigR(files, env) IN
    /\ config' = IF r.status = "ok" THEN r.doc ELSE config
    /\ last' = [LastBase EXCEPT !.op = "loadConfig", !.status = r.status,
                  !.thrown = (r.status # "ok"), !.loaded = TRUE, !.read = r.read,
                  !.legacy = r.legacy]
    /\ UNCHANGED <<env, files, apiKeyCache, probes, fieldVars>>

\* getConfig()
GetConfig ==
  LET c == GetConfigR(config, files, env) IN
    /\ config' = c.cfg
    /\ last' = [LastBase EXCEPT !.op = "getConfig", !.status = c.status,
                  !.thrown = (c.status # "ok"), !.loaded = c.loaded, !.read = c.read,
                  !.legacy = c.legacy]
    /\ UNCHANGED <<env, files, apiKeyCache, probes, fieldVars>>

\* getRepository(id)
GetRepository(idArg) ==
  LET g == GetRepositoryR(config, files, env, idArg) IN
    /\ config' = g.cfg
    /\ last' = [LastBase EXCEPT !.op = "getRepository", !.arg = idArg,
                  !.status = g.status, !.thrown = (g.status # "ok"), !.repo = g.repo,
                  !.message = g.message, !.loaded = g.loaded, !.read = g.read]
    /\ UNCHANGED <<env, files, apiKeyCache, probes, fieldVars>>

\* getResolvedApiKey(repoId)
GetResolvedApiKey(idArg) ==
  LET k == GetResolvedApiKeyR(config, apiKeyCache, files, env, idArg) IN
    /\ config' = k.cfg
    /\ apiKeyCache' = k.keys
    /\ last' = [LastBase EXCEPT !.op = "getResolvedApiKey", !.arg = idArg,
                  !.status = k.status, !.thrown = (k.status # "ok"), !.repo = k.repo,
                  !.key = k.key, !.message = k.message, !.loaded = k.loaded,
                  !.read = k.read]
    /\ UNCHANGED <<env, files, probes, fieldVars>>

\* clearCache()
ClearCache ==
  /\ apiKeyCache' = EmptyMap
  /\ last' = [LastBase EXCEPT !.op = "clearCache", !.status = "ok"]
  /\ UNCHANGED <<env, files, config, probes, fieldVars>>

MaxProbes == 1

\* testConnection(repoId) from the call to the await: it throws, or suspends at axios.get
TestConnectionStart(idArg) ==
  LET k == TestConnectionBegin(config, apiKeyCache, files, env, idArg) IN
    /\ Len(probes) < MaxProbes
    /\ config' = k.cfg
    /\ apiKeyCache' = k.keys
    /\ probes' = IF k.status = "ok"
                   THEN Append(probes, [repo |-> k.repo, apiKey |-> k.key,
                                         url |-> k.repo.url \o "/users/current.json"])
                   ELSE probes
    /\ last' = [LastBase EXCEPT !.op = "testConnection:start", !.arg = idArg,
                  !.status = IF k.status = "ok" THEN "pending" ELSE k.status,
                  !.thrown = (k.status # "ok"), !.repo = k.repo, !.key = k.key,
                  !.message = k.message, !.loaded = k.loaded, !.read = k.read]
    /\ UNCHANGED <<env, files, fieldVars>>

\* the axios.get of suspended call i settles with resp; testConnection returns
TestConnectionFinish(i, resp) ==
  /\ i \in 1..Len(probes)
  /\ LET res == TestConnectionEnd(probes[i].apiKey, resp) IN
       last' = [LastBase EXCEPT !.op = "testConnection", !.status = "returned",
                  !.repo = probes[i].repo, !.key = probes[i].apiKey,
                  !.success = res.success, !.message = res.message,
                  !.version = res.version, !.resp = Given(resp)]
  /\ probes' = [j \in 1..(Len(probes) - 1) |-> IF j < i THEN probes[j] ELSE probes[j + 1]]
  /\ UNCHANGED <<env, files, config, apiKeyCache, fieldVars>>

(***************************************************************************)
(* The environment of the process: its variables and the file system       *)
(***************************************************************************)
SetEnv(name, value) ==
  /\ ~(name \in DOMAIN env /\ env[name] = value)
  /\ env' = MapSet(env, name, value)
  /\ last' = [LastBase EXCEPT !.op = "env"]
  /\ UNCHANGED <<files, config, apiKeyCache, probes, fieldVars>>

UnsetEnv(name) ==
  /\ name \in DOMAIN env
  /\ env' = [n \in (DOMAIN env) \ {name} |-> env[n]]
  /\ last' = [LastBase EXCEPT !.op = "env"]
  /\ UNCHANGED <<files, config, apiKeyCache, probes, fieldVars>>

WriteFile(p, content) ==
  /\ p \in DOMAIN files
  /\ files[p] # content
  /\ files' = [files EXCEPT ![p] = content]
  /\ last' = [LastBase EXCEPT !.op = "fs"]
  /\ UNCHANGED <<env, config, apiKeyCache, probes, fieldVars>>

RemoveFile(p) ==
  /\ p \in DOMAIN files
  /\ files[p] # Absent
  /\ files' = [files EXCEPT ![p] = Absent]
  /\ last' = [LastBase EXCEPT !.op = "fs"]
  /\ UNCHANGED <<env, config, apiKeyCache, probes, fieldVars>>

(***************************************************************************)
(* RedmineFieldResolver. A field value is undefined, null, a number or a   *)
(* string; an enumeration is a sequence of records [id, name].             *)
(***************************************************************************)
FieldTypes == {"tracker", "status", "priority"}

Undefined == [t |-> "undefined"]
Null == [t |-> "null"]
Num(n) == [t |-> "number", n |-> n]
Str(s) == [t |-> "string", s |-> s]

HexChars == "0123456789abcdef"
HexSet == CharSet(HexChars) \cup CharSet("ABCDEF")
DigitSet == CharSet(DigitChars)

\* the numeric value of a digit character
DigitValue == [c \in HexSet |-> (CHOOSE i \in 1..16 : Ch(HexChars, i) = LowerCh(c)) - 1]

RECURSIVE DigitsValue(_, _)
\* the mathematical value of the digit string s in the given radix
DigitsValue(s, radix) ==
  IF Len(s) = 0 THEN 0
  ELSE DigitsValue(SubSeq(s, 1, Len(s) - 1), radix) * radix + DigitValue[Ch(s, Len(s))]

AllDigits(s, radix) ==
  \A i \in 1..Len(s) : Ch(s, i) \in HexSet /\ DigitValue[Ch(s, i)] < radix

RECURSIVE Pow10(_)
Pow10(n) == IF n = 0 THEN 1 ELSE 10 * Pow10(n - 1)

RECURSIVE IndexOfExponent(_, _)
\* least position j >= i of 'e' or 'E' in s, 0 when there is none
IndexOfExponent(s, i) ==
  IF i > Len(s) THEN 0
  ELSE IF Ch(s, i) \in {"e", "E"} THEN i
  ELSE IndexOfExponent(s, i + 1)

\* Number(s) for a StrDecimalLiteral without sign: <<n>> when it is a positive
\* integer n, <<>> when it is NaN, zero or not an integer
DecimalPositiveInteger(s) ==
  LET e == IndexOfExponent(s, 1)
      mantissa == IF e = 0 THEN s ELSE SubSeq(s, 1, e - 1)
      expText == IF e = 0 THEN "" ELSE From(s, e + 1)
      expNeg == Len(expText) > 0 /\ Ch(expText, 1) = "-"
      expDigits == IF Len(expText) > 0 /\ Ch(expText, 1) \in {"+", "-"}
                     THEN From(expText, 2) ELSE expText
      dot == IndexOfCh(mantissa, ".", 1)
      intPart == IF dot = 0 THEN mantissa ELSE SubSeq(mantissa, 1, dot - 1)
      fracPart == IF dot = 0 THEN "" ELSE From(mantissa, dot + 1)
      wellFormed == /\ Len(intPart) + Len(fracPart) > 0
                    /\ AllDigits(intPart, 10) /\ AllDigits(fracPart, 10)
                    /\ e # 0 => (Len(expDigits) > 0 /\ AllDigits(expDigits, 10))
  IN IF ~wellFormed THEN <<>>
     ELSE LET n == DigitsValue(intPart \o fracPart, 10)
              ex == IF expNeg THEN 0 - DigitsValue(expDigits, 10)
                    ELSE DigitsValue(expDigits, 10)
              scale == ex - Len(fracPart)
          IN IF n = 0 THEN <<>>
             ELSE IF scale >= 0 THEN <<n * Pow10(scale)>>
             ELSE IF n % Pow10(0 - scale) = 0 THEN <<n \div Pow10(0 - scale)>>
             ELSE <<>>

\* asNumber = Number(trimmed) when !Number.isNaN(asNumber) && Number.isInteger(asNumber)
\* && asNumber > 0, as <<asNumber>>; <<>> otherwise
PositiveIntegerValue(s) ==
  IF Len(s) >= 3 /\ Ch(s, 1) = "0" /\ Ch(s, 2) \in {"x", "X", "o", "O", "b", "B"}
    THEN LET radix == IF Ch(s, 2) \in {"x", "X"} THEN 16
                      ELSE IF Ch(s, 2) \in {"o", "O"} THEN 8 ELSE 2
             digits == From(s, 3) IN
         IF AllDigits(digits, radix) /\ DigitsValue(digits, radix) > 0
           THEN <<DigitsValue(digits, radix)>> ELSE <<>>
  ELSE IF Len(s) >= 1 /\ Ch(s, 1) = "-" THEN <<>>
  ELSE IF Len(s) >= 1 /\ Ch(s, 1) = "+" THEN DecimalPositiveInteger(From(s, 2))
  ELSE DecimalPositiveInteger(s)

\* getEndpoint(type)
GetEndpoint(type) ==
  CASE type = "tracker" -> "/trackers.json"
    [] type = "status" -> "/issue_statuses.json"
    [] type = "priority" -> "/enumerations/issue_priorities.json"

\* getResponseKey(type)
GetResponseKey(type) ==
  CASE type = "tracker" -> "trackers"
    [] type = "status" -> "issue_statuses"
    [] type = "priority" -> "issue_priorities"

\* entities.map((entity) => entity.name)
Names(entities) == [i \in 1..Len(entities) |-> entities[i].name]

\* mutant of ExactMatch: names are compared without lower-casing them
ExactMatchCaseSensitive(entities, normalized) ==
  LET hits == {i \in 1..Len(entities) : entities[i].name = normalized} IN
    IF hits = {} THEN 0 ELSE CHOOSE i \in hits : \A j \in hits : i <= j

\* entities.find((entity) => entity.name.toLowerCase() === normalized): the position
\* of the first such entity, 0 when there is none
ExactMatch(entities, normalized) ==
  LET hits == {i \in 1..Len(entities) : ToLowerCase(entities[i].name) = normalized} IN
    IF hits = {} THEN 0 ELSE CHOOSE i \in hits : \A j \in hits : i <= j

\* mutant of PartialMatches: names are searched without lower-casing them
PartialMatchesCaseSensitive(entities, normalized) ==
  SelectSeq(entities, LAMBDA entity : Includes(entity.name, normalized))

\* entities.filter((entity) => entity.name.toLowerCase().includes(normalized))
PartialMatches(entities, normalized) ==
  SelectSeq(entities, LAMBDA entity : Includes(ToLowerCase(entity.name), normalized))

\* the outcome of a resolveField call that returns result
Returned(result) == [outcome |-> "returned", result |-> result, error |-> "", message |-> ""]

\* the outcome of a resolveField call that throws
Thrown(error, message) ==
  [outcome |-> "thrown", result |-> Omitted, error |-> error, message |-> message]

\* the two error outcomes of the partial-match stage
NoPartialMatch(entities, value, label) ==
  Thrown("not_found", label \o " '" \o value \o "' not found. Available values: "
                        \o Join(Names(entities), ", "))

SeveralPartialMatches(partial, value, label) ==
  Thrown("ambiguous", label \o " '" \o value \o "' is ambiguous. Possible matches: "
                        \o Join(Names(partial), ", "))

\* mutant of MatchEntities: partial matches are counted before an exact match is sought
MatchEntitiesPartialFirst(entities, value, label) ==
  LET normalized == ToLowerCase(Trim(value))
      partial == PartialMatches(entities, normalized) IN
    IF Len(partial) = 1 THEN Returned(Given(partial[1].id))
    ELSE IF Len(partial) = 0 THEN NoPartialMatch(entities, value, label)
    ELSE SeveralPartialMatches(partial, value, label)

\* resolveField after getEntities: the name lookup of the string value in entities
MatchEntities(entities, value, label) ==
  LET normalized == ToLowerCase(Trim(value))
      exact == ExactMatch(entities, normalized)
      partial == PartialMatches(entities, normalized) IN
    IF exact # 0 THEN Returned(Given(entities[exact].id))
    ELSE IF Len(partial) = 1 THEN Returned(Given(partial[1].id))
    ELSE IF Len(partial) = 0 THEN NoPartialMatch(entities, value, label)
    ELSE SeveralPartialMatches(partial, value, label)

\* mutant of EarlyReturn: numeric strings are not returned early
EarlyReturnNumbersOnly(value) ==
  IF value.t \in {"undefined", "null"} THEN <<Returned(Omitted)>>
  ELSE IF value.t = "number" THEN <<Returned(Given(value.n))>>
  ELSE IF value.s = "" \/ Trim(value.s) = "" THEN <<Returned(Omitted)>>
  ELSE <<>>

\* resolveField before getEntities: <<outcome>> when the call returns without a
\* lookup, <<>> when the enumeration is needed
EarlyReturn(value) ==
  IF value.t \in {"undefined", "null"} THEN <<Returned(Omitted)>>
  ELSE IF value.t = "number" THEN <<Returned(Given(value.n))>>
  ELSE IF value.s = "" \/ Trim(value.s) = "" THEN <<Returned(Omitted)>>
  ELSE IF PositiveIntegerValue(Trim(value.s)) # <<>>
    THEN <<Returned(PositiveIntegerValue(Trim(value.s)))>>
  ELSE <<>>

\* raw.map((entity) => ({ id: entity.id, name: entity.name }))
MapEntities(raw) == [i \in 1..Len(raw) |-> [id |-> raw[i].id, name |-> raw[i].name]]

\* an axios.get outcome of getEntities: a body whose response key holds the array
\* raw, a body without such an array, or a rejection
ArrayResponse(raw) == [kind |-> "array", raw |-> raw, text |-> ""]
MissingResponse == [kind |-> "missing", raw |-> <<>>, text |-> ""]
ErrorResponse(text) == [kind |-> "error", raw |-> <<>>, text |-> text]

FLastBase ==
  [op |-> "none", type |-> "", repo |-> "", value |-> Undefined, outcome |-> "",
   result |-> Omitted, error |-> "", message |-> "", entities |-> Omitted,
   fetched |-> FALSE]

FLastOf(op, call, res, entities, fetched) ==
  [op |-> op, type |-> call.type, repo |-> call.repo, value |-> call.value,
   outcome |-> res.outcome, result |-> res.result, error |-> res.error,
   message |-> res.message, entities |-> entities, fetched |-> fetched]

MaxCalls == 1

\* resolveField(type, options) from the call to its return, its throw or the await of
\* axios.get in getEntities, while fewer than `limit` calls are suspended
ResolveFieldUpTo(limit, type, repo, value, label) ==
  LET call == [type |-> type, repo |-> repo, value |-> value, label |-> label]
      early == EarlyReturn(value) IN
    IF early # <<>>
      THEN /\ flast' = FLastOf("resolveField", call, early[1], Omitted, FALSE)
           /\ UNCHANGED <<cache, calls, tool, mgrVars>>
    ELSE IF repo \in DOMAIN cache[type]
      THEN /\ flast' = FLastOf("resolveField", call,
                               MatchEntities(cache[type][repo], value.s, label),
                               Given(cache[type][repo]), FALSE)
           /\ UNCHANGED <<cache, calls, tool, mgrVars>>
    ELSE /\ Len(calls) < limit
         /\ calls' = Append(calls, call)
         /\ flast' = FLastOf("resolveField:start", call,
                             [outcome |-> "pending", result |-> Omitted, error |-> "",
                              message |-> ""], Omitted, TRUE)
         /\ UNCHANGED <<cache, tool, mgrVars>>

\* mutant of CacheAfterFetch: the enumeration is stored for every field kind
CacheAfterFetchAnyType(c, call, resp) ==
  IF resp.kind = "array"
    THEN [t \in DOMAIN c |-> MapSet(c[t], call.repo, MapEntities(resp.raw))]
  ELSE c

\* this.cache[type].set(cacheKey, mapped), reached only when the body holds the array
CacheAfterFetch(c, call, resp) ==
  IF resp.kind = "array"
    THEN [c EXCEPT ![call.type] = MapSet(@, call.repo, MapEntities(resp.raw))]
  ELSE c

\* resolveField(type, options) with at most MaxCalls calls suspended
ResolveField(type, repo, value, label) ==
  ResolveFieldUpTo(MaxCalls, type, repo, value, label)

\* what resolveField returns or throws once the axios.get of getEntities settled with
\* resp
FetchResult(call, resp) ==
  IF resp.kind = "array"
    THEN MatchEntities(MapEntities(resp.raw), call.value.s, call.label)
  ELSE IF resp.kind = "missing"
    THEN Thrown("unexpected",
                "Unexpected response for " \o call.type \o ": missing '"
                  \o GetResponseKey(call.type) \o "' array")
  ELSE Thrown("network", resp.text)

\* the axios.get of suspended call i settles with resp: getEntities caches the mapped
\* array and resolveField finishes, or the call throws
FetchReturn(i, resp) ==
  /\ i \in 1..Len(calls)
  /\ LET call == calls[i]
         mapped == MapEntities(resp.raw) IN
       /\ cache' = CacheAfterFetch(cache, call, resp)
       /\ flast' = FLastOf("resolveField", call, FetchResult(call, resp),
                            IF resp.kind = "array" THEN Given(mapped) ELSE Omitted, TRUE)
  /\ calls' = [j \in 1..(Len(calls) - 1) |-> IF j < i THEN calls[j] ELSE calls[j + 1]]
  /\ UNCHANGED <<tool, mgrVars>>

\* RedmineFieldResolver.clearCache()
ClearFieldCache ==
  /\ cache' = [t \in FieldTypes |-> EmptyMap]
  /\ flast' = [FLastBase EXCEPT !.op = "clearCache"]
  /\ UNCHANGED <<calls, tool, mgrVars>>

(***************************************************************************)
(* IntegratedSearchServer: the create-issue, update-issue and bulk-update  *)
(* tool calls. The runtime hands the server one tool call at a time.       *)
(***************************************************************************)
\* what a handler catches: an McpError, a ZodError, an AxiosError with the status of
\* its response (0 when there is none), or another Error
McpError(code, message) == [kind |-> "mcp", code |-> code, status |-> 0, message |-> message]
ZodError(message) == [kind |-> "zod", code |-> "", status |-> 0, message |-> message]
AxiosError(status, message) ==
  [kind |-> "axios", code |-> "", status |-> status, message |-> message]
PlainError(message) == [kind |-> "error", code |-> "", status |-> 0, message |-> message]
NoError == [kind |-> "none", code |-> "", status |-> 0, message |-> ""]

\* ErrorCode of the protocol library
ErrorCodeNumber(code) ==
  CASE code = "InvalidRequest" -> "-32600"
    [] code = "MethodNotFound" -> "-32601"
    [] code = "InvalidParams" -> "-32602"
    [] code = "InternalError" -> "-32603"

\* error.message: the constructor of McpError puts the code before the message
ErrorMessage(error) ==
  IF error.kind = "mcp"
    THEN "MCP error " \o ErrorCodeNumber(error.code) \o ": " \o error.message
  ELSE error.message

\* handleRedmineError(error, defaultMessage): the McpError it throws
HandleRedmineError(error, defaultMessage) ==
  IF error.kind = "zod"
    THEN McpError("InvalidParams", "Invalid parameters: " \o error.message)
  ELSE IF error.kind = "axios"
    THEN IF error.status = 401
           THEN McpError("InvalidRequest",
                         "Redmine authentication failed. Please check your API key.")
         ELSE IF error.status = 403
           THEN McpError("InvalidRequest", "Redmine access forbidden. Check your permissions.")
         ELSE IF error.status = 404
           THEN McpError("InvalidRequest", "Redmine resource not found.")
         ELSE IF error.status = 422
           THEN McpError("InvalidParams", "Redmine validation error: " \o error.message)
         ELSE McpError("InternalError", "Redmine API error: \"" \o error.message \o "\"")
  ELSE McpError("InternalError", defaultMessage \o ": " \o ErrorMessage(error))

\* the defaultMessage each handler passes to handleRedmineError
DefaultMessage(name) ==
  CASE name = "create" -> "Failed to create Redmine issue"
    [] name = "update" -> "Failed to update Redmine issue"
    [] name = "bulk" -> "Failed to bulk update Redmine issues"

\* RedmineFlexibleIdSchema.optional(): undefined, a positive integer or a string of
\* at least one character
FlexibleIdOk(value) ==
  \/ value.t = "undefined"
  \/ value.t = "number" /\ value.n > 0
  \/ value.t = "string" /\ Len(value.s) >= 1

\* the schema of the tool parses args: <<>>, or the ZodError it throws
ParseToolArgs(args) ==
  IF args.name = "create" /\ args.subject = "" THEN <<ZodError("Subject is required")>>
  ELSE IF \E f \in {"project_id", "tracker_id", "status_id", "priority_id"} :
            ~FlexibleIdOk(args[f])
    THEN <<ZodError("Invalid input")>>
  ELSE IF args.name = "bulk" /\ args.issue_ids = <<>>
    THEN <<ZodError("Array must contain at least 1 element(s)")>>
  ELSE <<>>

\* getRepoContext(repositoryId): getRepository, then getResolvedApiKey of its id
GetRepoContext(cfg, keys, f, e, idArg) ==
  ProbeKeyFor(GetRepositoryR(cfg, f, e, idArg), keys, f, e)

\* getDefaultValue(repo, field)
GetDefaultValue(repo, field) ==
  IF Has(repo, "defaults") /\ Has(repo.defaults, field) /\ repo.defaults[field].t # "null"
    THEN repo.defaults[field]
  ELSE Undefined

\* value ?? fallback
Coalesce(value, fallback) == IF value.t \in {"undefined", "null"} THEN fallback ELSE value

\* hasValue(value)
HasValue(value) ==
  \/ value.t = "number"
  \/ value.t = "string" /\ Len(Trim(value.s)) > 0

NoIds == [t \in FieldTypes |-> Omitted]

\* no tool call has been handled yet
NoTool ==
  [kind |-> "none", stage |-> "idle", repo |-> "", base |-> "", todo |-> <<>>,
   ids |-> NoIds, issues |-> <<>>, requests |-> <<>>, log |-> <<>>, updates |-> <<>>,
   failures |-> <<>>, status |-> "", error |-> NoError]

FieldRequest(type, value, label) == [type |-> type, value |-> value, label |-> label]

\* the resolveFieldId calls of the handler, in the order it makes them
FieldsToResolve(args, repo) ==
  IF args.name = "create"
    THEN <<FieldRequest("tracker", Coalesce(args.tracker_id, GetDefaultValue(repo, "trackerId")),
                        "Tracker"),
           FieldRequest("status", Coalesce(args.status_id, GetDefaultValue(repo, "statusId")),
                        "Status"),
           FieldRequest("priority",
                        Coalesce(args.priority_id, GetDefaultValue(repo, "priorityId")),
                        "Priority")>>
  ELSE IF args.name = "update"
    THEN <<FieldRequest("status", args.status_id, "Status"),
           FieldRequest("priority", args.priority_id, "Priority")>>
  ELSE <<FieldRequest("status", args.status_id, "Status")>>

\* the handler throws error, or returns
Ended(t, status, error) == [t EXCEPT !.stage = "done", !.status = status, !.error = error]

\* mutant of AfterResolution: a name that does not resolve is left out of the request
AfterResolutionLenient(t, res) ==
  [t EXCEPT !.ids[Head(t.todo).type] = res.result, !.todo = Tail(@)]

\* the handler after resolveFieldId returned or threw res for the first field of
\* todo: resolveFieldId rethrows as McpError(InvalidRequest, message), the catch of
\* the handler passes that to handleRedmineError
AfterResolution(t, res) ==
  IF res.outcome = "thrown"
    THEN Ended(t, "error",
               HandleRedmineError(McpError("InvalidRequest", res.message),
                                  DefaultMessage(t.kind)))
  ELSE [t EXCEPT !.ids[Head(t.todo).type] = res.result, !.todo = Tail(@)]

\* the handler notes the outcome of a resolveFieldId call
Logged(t, call, res) ==
  [t EXCEPT !.log = Append(@, [type |-> call.type, outcome |-> res.outcome,
                                error |-> res.error])]

\* axios.post(url, issueData) of create, axios.put(url, updateData) of update and of
\* bulk update for the first issue left
WriteRequest(t) ==
  IF t.kind = "create"
    THEN [method |-> "POST", base |-> t.base, issue |-> Omitted, ids |-> t.ids]
  ELSE [method |-> "PUT", base |-> t.base, issue |-> Given(Head(t.issues)), ids |-> t.ids]

\* the handler sends the write request and suspends
IssueWrite(t) == [t EXCEPT !.stage = "write", !.requests = Append(@, WriteRequest(t))]

\* resolveFieldId returns undefined without calling the resolver
SkipsResolver(value) ==
  value.t \in {"undefined", "null"} \/ (value.t = "string" /\ value.s = "")

PendingResult == [outcome |-> "pending", result |-> Omitted, error |-> "", message |-> ""]

\* the resolveField call the handler makes for the first field of todo
CallOf(t) ==
  [type |-> Head(t.todo).type, repo |-> t.repo, value |-> Head(t.todo).value,
   label |-> Head(t.todo).label]

\* the handler from its first unresolved field to its next await or its throw: the
\* fields are resolved one after the other, then the write request is sent
RECURSIVE RunResolutions(_, _, _)

\* the handler goes on from `next` unless it threw
Proceed(next, c, done) ==
  IF next.stage = "done" THEN [tool |-> next, calls |-> <<>>, flast |-> done]
  ELSE RunResolutions(next, c, done)

\* resolveFieldId returned or threw res for call, looked up in entities
Resolved(t, c, call, res, entities, fetched) ==
  Proceed(AfterResolution(Logged(t, call, res), res), c,
          FLastOf("resolveField", call, res, entities, fetched))

\* resolveField(type, options) for call, early being what it returns before
\* getEntities: a return, a throw, or the await of the fetch
ResolveCall(t, c, fl, call, early) ==
  IF SkipsResolver(call.value)
    THEN RunResolutions(AfterResolution(Logged(t, call, Returned(Omitted)),
                                        Returned(Omitted)), c, fl)
  ELSE IF early # <<>> THEN Resolved(t, c, call, early[1], Omitted, FALSE)
  ELSE IF call.repo \in DOMAIN c[call.type]
    THEN Resolved(t, c, call,
                  MatchEntities(c[call.type][call.repo], call.value.s, call.label),
                  Given(c[call.type][call.repo]), FALSE)
  ELSE [tool |-> [t EXCEPT !.stage = "resolving"], calls |-> <<call>>,
        flast |-> FLastOf("resolveField:start", call, PendingResult, Omitted, TRUE)]

RunCall(t, c, fl, call) == ResolveCall(t, c, fl, call, EarlyReturn(call.value))

RunResolutions(t, c, fl) ==
  IF t.todo = <<>> THEN [tool |-> IssueWrite(t), calls |-> <<>>, flast |-> fl]
  ELSE RunCall(t, c, fl, CallOf(t))

\* the handler moves to r: its record, the resolver call it awaits and the last
\* resolver step
ToolMoves(r) ==
  /\ tool' = r.tool
  /\ calls' = r.calls
  /\ flast' = r.flast

\* the record of a tool call that begins
FreshTool(name) == [NoTool EXCEPT !.kind = name, !.stage = "start"]

\* the record of a tool call whose getRepoContext returned repo
StartedTool(args, repo) ==
  [NoTool EXCEPT !.kind = args.name, !.stage = "start", !.repo = repo.id,
                 !.base = repo.url, !.todo = FieldsToResolve(args, repo),
                 !.issues = IF args.name = "bulk" THEN args.issue_ids
                            ELSE IF args.name = "update" THEN <<args.issue_id>>
                            ELSE <<>>]

\* the handler throws error before its first await
ToolThrows(name, error) ==
  /\ tool' = Ended(FreshTool(name), "error",
                   HandleRedmineError(error, DefaultMessage(name)))
  /\ UNCHANGED <<cache, calls, flast>>

\* the handler after getRepoContext returned or threw ctx
ToolAfterContext(args, ctx) ==
  /\ config' = ctx.cfg
  /\ apiKeyCache' = ctx.keys
  /\ last' = [LastBase EXCEPT !.op = "getRepoContext", !.arg = args.repository_id,
                !.status = ctx.status, !.thrown = (ctx.status # "ok"),
                !.repo = ctx.repo, !.key = ctx.key, !.message = ctx.message,
                !.loaded = ctx.loaded, !.read = ctx.read]
  /\ UNCHANGED <<env, files, probes>>
  /\ IF ctx.status # "ok" THEN ToolThrows(args.name, PlainError(ctx.message))
     ELSE IF args.name = "create"
             /\ ~HasValue(Coalesce(args.project_id, GetDefaultValue(ctx.repo, "projectId")))
       THEN ToolThrows(args.name,
                       McpError("InvalidRequest",
                                "project_id is required. Provide a value or configure repository defaults."))
     ELSE IF args.name = "update"
       THEN /\ tool' = [StartedTool(args, ctx.repo) EXCEPT !.stage = "before"]
            /\ UNCHANGED <<cache, calls, flast>>
     ELSE /\ ToolMoves(RunResolutions(StartedTool(args, ctx.repo), cache, flast))
          /\ UNCHANGED cache

\* the handler after the schema of the tool returned or threw parsed
ToolAfterParse(args, parsed) ==
  IF parsed # <<>>
    THEN /\ ToolThrows(args.name, parsed[1])
         /\ UNCHANGED mgrVars
  ELSE ToolAfterContext(args, GetRepoContext(config, apiKeyCache, files, env,
                                             args.repository_id))

\* handleRedmineCreateIssue, handleRedmineUpdateIssue or handleRedmineBulkUpdateIssues
\* from the call to its first await or its throw
ToolBegin(args) ==
  /\ tool.stage \in {"idle", "done"}
  /\ calls = <<>>
  /\ ToolAfterParse(args, ParseToolArgs(args))

\* the axios.get of the resolver call the handler awaits settles with resp
ToolFetchReturn(resp) ==
  /\ tool.stage = "resolving"
  /\ Len(calls) = 1
  /\ cache' = CacheAfterFetch(cache, calls[1], resp)
  /\ ToolMoves(Resolved(tool, CacheAfterFetch(cache, calls[1], resp), calls[1],
                        FetchResult(calls[1], resp),
                        IF resp.kind = "array" THEN Given(MapEntities(resp.raw))
                        ELSE Omitted,
                        TRUE))
  /\ UNCHANGED mgrVars

\* an answer of the tracker to a request of the handler
ToolOk == [kind |-> "ok", status |-> 200, text |-> ""]
ToolFail(status, text) == [kind |-> "error", status |-> status, text |-> text]

\* the error the handler catches when a request settles with resp
RequestError(t, resp) ==
  Ended(t, "error",
        HandleRedmineError(AxiosError(resp.status, resp.text), DefaultMessage(t.kind)))

\* handleRedmineUpdateIssue: the GET of the issue before the update settles with resp
ToolBeforeReturn(resp) ==
  /\ tool.stage = "before"
  /\ IF resp.kind = "ok"
       THEN /\ ToolMoves(RunResolutions(tool, cache, flast))
            /\ UNCHANGED cache
     ELSE /\ tool' = RequestError(tool, resp)
          /\ UNCHANGED <<cache, calls, flast>>
  /\ UNCHANGED mgrVars

\* bulk update goes on with the next issue, or returns after the last one
BulkNext(noted) ==
  IF noted.issues = <<>> THEN Ended(noted, "ok", NoError) ELSE IssueWrite(noted)

\* bulk update after the PUT of the first issue left settled with resp: the catch
\* inside the loop notes a failure, and the loop goes on
BulkAfterWrite(t, resp) ==
  IF resp.kind = "ok"
    THEN BulkNext([t EXCEPT !.updates = Append(@, Head(t.issues)), !.issues = Tail(@)])
  ELSE BulkNext([t EXCEPT !.failures = Append(@, Head(t.issues)), !.issues = Tail(@)])

\* the POST or PUT the handler awaits settles with resp
ToolWriteReturn(resp) ==
  /\ tool.stage = "write"
  /\ tool' = IF tool.kind = "bulk" THEN BulkAfterWrite(tool, resp)
             ELSE IF resp.kind # "ok" THEN RequestError(tool, resp)
             ELSE IF tool.kind = "update" THEN [tool EXCEPT !.stage = "after"]
             ELSE Ended(tool, "ok", NoError)
  /\ UNCHANGED <<cache, calls, flast, mgrVars>>

\* handleRedmineUpdateIssue: the GET of the issue after the update settles with resp
ToolAfterReturn(resp) ==
  /\ tool.stage = "after"
  /\ tool' = IF resp.kind = "ok" THEN Ended(tool, "ok", NoError)
             ELSE RequestError(tool, resp)
  /\ UNCHANGED <<cache, calls, flast, mgrVars>>

\* the field resolver and the server after construction
FieldInit ==
  /\ cache = [t \in FieldTypes |-> EmptyMap]
  /\ calls = <<>>
  /\ flast = FLastBase
  /\ tool = NoTool

\* the manager after construction, in environment e with file system f
MgrInit(e, f) ==
  /\ env = e
  /\ files = f
  /\ config = NoConfig
  /\ apiKeyCache = EmptyMap
  /\ probes = <<>>
  /\ last = LastBase

ExplicitSetting == "~/c.json"
ExplicitPath == ExpandHome(ExplicitSetting)
Paths == {ExplicitPath, LocalPath, DefaultPath, HomePath}
NoFiles == [p \in Paths |-> Absent]

(***************************************************************************)
(* SpecRepo: repository lookup. One configuration file, at the explicit    *)
(* path, holding any document of RepoDocs.                                 *)
(***************************************************************************)
MaxRepos == 2

RepoIds == {"main", "dev"}

RepoRecord(id, en) ==
  [id |-> id, displayName |-> id, url |-> "https://" \o id \o ".example.com",
   apiKey |-> IF id = "main" THEN "${RED_KEY}" ELSE "${RED_KEY_DEV}",
   secretSource |-> "environment", enabled |-> en]

RawDoc(repos, dflt) ==
  [configVersion |-> "1.0", repositories |-> repos]
  @@ (IF dflt # Omitted THEN [defaultRepositoryId |-> dflt[1]] ELSE EmptyMap)

RepoLists ==
  UNION {[1..n -> {RepoRecord(id, en) : id \in RepoIds, en \in BOOLEAN}] : n \in 1..MaxRepos}

RepoDefaults == {Omitted, Given("main"), Given("dev"), Given("qa")}

RepoDocs == {RawDoc(repos, dflt) : repos \in RepoLists, dflt \in RepoDefaults}

RepoArgs == {Omitted, Given("main"), Given("dev"), Given("qa"), Given("")}

ExplicitEnv == [n \in {"REDMINE_CONFIG_PATH"} |-> ExplicitSetting]

InitRepo ==
  /\ \E d \in RepoDocs : MgrInit(ExplicitEnv, [NoFiles EXCEPT ![ExplicitPath] = JsonFile(d)])
  /\ FieldInit

NextRepo ==
  \/ LoadConfig
  \/ GetConfig
  \/ \E a \in RepoArgs : GetRepository(a)

SpecRepo == InitRepo /\ [][NextRepo]_vars

\* the ids of the active document are pairwise distinct
UniqueIds(cfg) ==
  \A i, j \in 1..Len(cfg.repositories) :
    cfg.repositories[i].id = cfg.repositories[j].id => i = j

\* a declared default names a record of the active document
DeclaredDefaultExists(cfg) ==
  Has(cfg, "defaultRepositoryId") =>
    \E i \in 1..Len(cfg.repositories) : cfg.repositories[i].id = cfg.defaultRepositoryId

\* the id the last getRepository call had to resolve: the explicit id, else the
\* declared default, else the first record's id
AskedId ==
  IF last.arg # Omitted THEN last.arg[1]
  ELSE IF Has(config, "defaultRepositoryId") THEN config.defaultRepositoryId
  ELSE config.repositories[1].id

\* the positions of the records of the active document with id t
RecordsWithId(t) == {i \in 1..Len(config.repositories) : config.repositories[i].id = t}

\* C1 as claimed: on a valid document with unique ids, getRepository() returns the
\* declared default (or the first record), getRepository(id) returns exactly the
\* record with that id, or fails with 'not found' when no record has that id.
C1_AsClaimed ==
  (last.op = "getRepository" /\ config # NoConfig /\ UniqueIds(config)
     /\ DeclaredDefaultExists(config)) =>
    IF last.arg = Omitted
      THEN last.status = "ok" /\ last.repo.id = AskedId
      ELSE /\ \A i \in RecordsWithId(AskedId) :
                last.status = "ok" /\ last.repo = config.repositories[i]
           /\ RecordsWithId(AskedId) = {} => last.status = "not_found"

\* C1 amended: on a document with unique ids, getRepository resolves the explicit
\* id, else the declared default, else the first record's id; for a non-empty id it
\* returns exactly the record with that id when that record is enabled, fails with
\* 'disabled' when it is disabled, and fails with 'not found' when no record has
\* that id; an empty id fails with 'No repositories defined'.
C1_GetRepositoryResolves ==
  (last.op = "getRepository" /\ config # NoConfig /\ UniqueIds(config)) =>
    IF AskedId = "" THEN last.status = "no_repositories"
    ELSE /\ RecordsWithId(AskedId) = {} =>
              last.status = "not_found" /\ Includes(last.message, "not found")
         /\ \A i \in RecordsWithId(AskedId) :
              IF config.repositories[i].enabled
                THEN last.status = "ok" /\ last.repo = config.repositories[i]
                ELSE last.status = "disabled"

\* C1 witness: getRepository() without an id returned the declared default, which is
\* not the first record
C1_Witness ==
  /\ last.op = "getRepository" /\ last.arg = Omitted /\ last.status = "ok"
  /\ UniqueIds(config) /\ Has(config, "defaultRepositoryId")
  /\ config.repositories[1].id # config.defaultRepositoryId
  /\ last.repo.id = config.defaultRepositoryId

ScenarioDoc ==
  RawDoc(<<RepoRecord("main", TRUE), RepoRecord("dev", FALSE)>>, Given("main"))

\* C2: getRepository never returns a record whose enabled flag is false; when the id
\* it resolves names only disabled records the call fails with a 'disabled' error
\* that is not the 'not found' error; with main (enabled, default) and dev (disabled),
\* getRepository('dev') fails as disabled and getRepository() returns main.
C2_DisabledNeverReturned ==
  last.op = "getRepository" =>
    /\ last.status = "ok" => last.repo.enabled
    /\ (config # NoConfig /\ AskedId # "" /\ RecordsWithId(AskedId) # {}
          /\ \A i \in RecordsWithId(AskedId) : ~config.repositories[i].enabled) =>
         /\ last.status = "disabled" /\ last.thrown
         /\ Includes(last.message, "is disabled")
         /\ ~Includes(last.message, "not found")
    /\ config = ScenarioDoc =>
         /\ last.arg = Given("dev") => last.status = "disabled"
         /\ last.arg = Omitted => last.status = "ok" /\ last.repo.id = "main"

\* C2 witness: getRepository('dev') failed as disabled on the scenario's document
C2_Witness ==
  /\ last.op = "getRepository" /\ last.arg = Given("dev")
  /\ config = ScenarioDoc /\ last.status = "disabled"

\* C14: the schema validator rejects every document in which two repositories have
\* the same id, so the repository ids of every active document are pairwise distinct.
C14_RepositoryIdsDistinct ==
  config # NoConfig => UniqueIds(config)

\* C15: the schema validator rejects every document whose defaultRepositoryId equals
\* no repository's id, so a declared default of the active document names one of its
\* records and getRepository() without an id never fails with 'not found'.
C15_DeclaredDefaultResolves ==
  /\ config # NoConfig => DeclaredDefaultExists(config)
  /\ (last.op = "getRepository" /\ last.arg = Omitted) => last.status # "not_found"

(***************************************************************************)
(* SpecLoad: configuration discovery. Any of the four candidate files may  *)
(* be written (unparseable, schema-invalid or valid) and removed; the      *)
(* override path and the legacy variables may be set and unset.            *)
(***************************************************************************)
PathTag(p) ==
  CASE p = ExplicitPath -> "explicit"
    [] p = LocalPath -> "local"
    [] p = DefaultPath -> "default"
    [] OTHER -> "home"

\* a valid document that names the file it is stored in
DocFor(p) == RawDoc(<<RepoRecord(PathTag(p), TRUE)>>, Omitted)

\* a document the schema rejects: the url ends with a slash
InvalidDocFor(p) ==
  RawDoc(<<[RepoRecord(PathTag(p), TRUE) EXCEPT !.url = "https://redmine.example.com/"]>>,
         Omitted)

LoadContents(p) == {Garbage, JsonFile(InvalidDocFor(p)), JsonFile(DocFor(p))}

LegacyKey == "legacy_key_1234567890"

LoadEnvSettings ==
  {<<"REDMINE_CONFIG_PATH", ExplicitSetting>>,
   <<"REDMINE_URL", "https://legacy.example.com">>,
   <<"REDMINE_API_KEY", LegacyKey>>}

InitLoad == MgrInit(EmptyMap, NoFiles) /\ FieldInit

NextLoad ==
  \/ LoadConfig
  \/ GetConfig
  \/ \E p \in Paths : \E c \in LoadContents(p) : WriteFile(p, c)
  \/ \E p \in Paths : RemoveFile(p)
  \/ \E s \in LoadEnvSettings : SetEnv(s[1], s[2])
  \/ \E s \in LoadEnvSettings : UnsetEnv(s[1])

SpecLoad == InitLoad /\ [][NextLoad]_vars

\* the documented priority order of the candidates in the current environment
PriorityOrder ==
  (IF "REDMINE_CONFIG_PATH" \in DOMAIN env /\ env["REDMINE_CONFIG_PATH"] # ""
     THEN <<ExpandHome(env["REDMINE_CONFIG_PATH"])>> ELSE <<>>)
  \o <<LocalPath, DefaultPath, HomePath>>

OnDisk(p) == p \in DOMAIN files /\ files[p] # Absent

\* the candidates that exist on disk, in priority order
ExistingCandidates == SelectSeq(PriorityOrder, OnDisk)

\* the file at p does not parse, or its document fails the schema
BadFile(p) == files[p] = Garbage \/ ~SchemaParse(files[p].doc).ok

\* C3: discovery reads the first candidate, in the order override path -> local ->
\* committed -> home, that exists on disk and no other; a successful load activates
\* the document parsed from that file.
C3_FirstExistingWins ==
  last.loaded =>
    IF ExistingCandidates = <<>> THEN last.read = <<>>
    ELSE /\ last.read = <<ExistingCandidates[1]>>
         /\ last.status = "ok" =>
              /\ ~last.legacy
              /\ config = SchemaParse(files[ExistingCandidates[1]].doc).doc
              /\ config.repositories[1].id = PathTag(ExistingCandidates[1])

\* C3 witness: the override path is set but its file is missing, the local file is
\* loaded although the committed and the home file hold valid documents too
C3_Witness ==
  /\ last.loaded /\ last.status = "ok"
  /\ Len(PriorityOrder) = 4 /\ Len(ExistingCandidates) = 3
  /\ \A i \in 1..3 : ~BadFile(ExistingCandidates[i])
  /\ config.repositories[1].id = "local"

\* C4: when the first existing candidate fails to parse or to validate, the load
\* throws: only that file was read, the legacy fallback was not taken, and the
\* document held before the call is the document held after it.
C4_BadCandidateIsFatal ==
  [][(last'.loaded /\ ExistingCandidates # <<>> /\ BadFile(ExistingCandidates[1])) =>
       /\ last'.thrown
       /\ last'.status \in {"parse_error", "schema_error"}
       /\ last'.read = <<ExistingCandidates[1]>>
       /\ ~last'.legacy
       /\ config' = config]_vars

\* C4 witness: a load failed on an unparseable first candidate while a later
\* candidate holds a valid document and both legacy variables are set
C4_Witness ==
  /\ last.loaded /\ last.status = "parse_error" /\ config = NoConfig
  /\ Len(ExistingCandidates) >= 2
  /\ ~BadFile(ExistingCandidates[2])
  /\ EnvTruthy(env, "REDMINE_URL") /\ EnvTruthy(env, "REDMINE_API_KEY")

(***************************************************************************)
(* SpecLegacy: the legacy fallback. The legacy variables take any value of *)
(* LegacyUrls and LegacyKeys; the home file and the override file may      *)
(* exist.                                                                  *)
(***************************************************************************)
LegacyUrls ==
  {"", "https://x.test", "https://x.test/", "https://x.test//", "x.test"}

LegacyEnvSettings ==
  {<<"REDMINE_URL", u>> : u \in LegacyUrls}
  \cup {<<"REDMINE_API_KEY", "">>, <<"REDMINE_API_KEY", LegacyKey>>}
  \cup {<<"REDMINE_CONFIG_PATH", "">>, <<"REDMINE_CONFIG_PATH", ExplicitSetting>>}

LegacyFiles == {ExplicitPath, HomePath}

InitLegacy == MgrInit(EmptyMap, NoFiles) /\ FieldInit

NextLegacy ==
  \/ LoadConfig
  \/ GetConfig
  \/ \E s \in LegacyEnvSettings : SetEnv(s[1], s[2])
  \/ \E s \in LegacyEnvSettings : UnsetEnv(s[1])
  \/ \E p \in LegacyFiles : WriteFile(p, JsonFile(DocFor(p)))
  \/ \E p \in LegacyFiles : RemoveFile(p)

SpecLegacy == InitLegacy /\ [][NextLegacy]_vars

NonEmptyVar(n) == n \in DOMAIN env /\ env[n] # ""

\* the active document is the synthesized single-repository document
IsLegacyDocument ==
  /\ config # NoConfig
  /\ Len(config.repositories) = 1
  /\ config.repositories[1].id = "legacy"
  /\ Has(config, "defaultRepositoryId") /\ config.defaultRepositoryId = "legacy"

\* C5 as claimed: with no candidate file and both legacy variables present the load
\* yields the one-repository 'legacy' document; with no candidate and a variable
\* absent it fails; the variables are not used when a candidate exists.
C5_AsClaimed ==
  last.loaded =>
    /\ (ExistingCandidates = <<>> /\ NonEmptyVar("REDMINE_URL")
          /\ NonEmptyVar("REDMINE_API_KEY")) =>
         last.status = "ok" /\ IsLegacyDocument
    /\ (ExistingCandidates = <<>>
          /\ ("REDMINE_URL" \notin DOMAIN env \/ "REDMINE_API_KEY" \notin DOMAIN env)) =>
         last.thrown
    /\ ExistingCandidates # <<>> => ~last.legacy

\* REDMINE_URL, one trailing slash removed, passes the schema's url rules
LegacyUrlAccepted ==
  LET u == env["REDMINE_URL"]
      stripped == IF Len(u) > 0 /\ Ch(u, Len(u)) = "/" THEN SubSeq(u, 1, Len(u) - 1) ELSE u
  IN IsValidUrl(stripped) /\ Ch(stripped, Len(stripped)) # "/"

\* C5 amended: with no candidate file, both legacy variables non-empty and
\* REDMINE_URL (one trailing slash removed) a valid URL not ending in '/', the load
\* yields the one-repository 'legacy' document, which is also the default; with both
\* non-empty and the URL not valid the load fails on the schema; with a variable
\* absent or empty it fails with 'no configuration found'; when a candidate file
\* exists the legacy variables are not used.
C5_LegacyFallback ==
  last.loaded =>
    /\ (ExistingCandidates = <<>> /\ NonEmptyVar("REDMINE_URL")
          /\ NonEmptyVar("REDMINE_API_KEY")) =>
         IF LegacyUrlAccepted
           THEN /\ last.status = "ok" /\ last.legacy /\ IsLegacyDocument
                /\ config.repositories[1].apiKey = "${REDMINE_API_KEY}"
                /\ config.repositories[1].enabled
           ELSE last.thrown /\ last.status = "schema_error"
    /\ (ExistingCandidates = <<>>
          /\ ~(NonEmptyVar("REDMINE_URL") /\ NonEmptyVar("REDMINE_API_KEY"))) =>
         last.thrown /\ last.status = "no_config"
    /\ ExistingCandidates # <<>> =>
         /\ ~last.legacy
         /\ last.status = "ok" => ~IsLegacyDocument

\* C5 witness: no candidate file, both variables set, the 'legacy' document is active
C5_Witness ==
  /\ last.loaded /\ last.status = "ok" /\ ExistingCandidates = <<>>
  /\ NonEmptyVar("REDMINE_URL") /\ NonEmptyVar("REDMINE_API_KEY")
  /\ IsLegacyDocument
  /\ config.repositories[1].url = "https://x.test" /\ env["REDMINE_URL"] = "https://x.test/"

(***************************************************************************)
(* SpecCred: credentials and the connectivity probe. The configuration     *)
(* file at the override path holds CredDoc or is unparseable; RED_KEY is   *)
(* set, rotated and unset while keys are resolved, cached and used by      *)
(* probes whose HTTP request settles with any response of HttpResponses.   *)
(***************************************************************************)
CredDoc ==
  RawDoc(<<RepoRecord("main", TRUE),
           RepoRecord("dev", FALSE),
           [RepoRecord("ops", TRUE) EXCEPT !.apiKey = "literal_key_abcdef123456"]>>,
         Given("main"))

\* values of RED_KEY: two keys the validator accepts and one it rejects as too short
CredKeys == {"valid_key_1234567890", "$&-key-1234567890", "short"}

CredArgs == {Omitted, Given("ops"), Given("dev"), Given("qa")}

CredContents == {Garbage, JsonFile(CredDoc)}

\* what the request of a probe sending apiKey can settle with
HttpResponses(apiKey) ==
  {HttpOk(Given("5.1.0")), HttpOk(Omitted),
   HttpError("timeout of 5000ms exceeded"),
   HttpError("Request failed with status code 401"),
   HttpError("connect ECONNREFUSED, key " \o apiKey \o " rejected")}

InitCred ==
  /\ \E c \in CredContents : MgrInit(ExplicitEnv, [NoFiles EXCEPT ![ExplicitPath] = c])
  /\ FieldInit

NextCred ==
  \/ \E a \in CredArgs : GetResolvedApiKey(a)
  \/ ClearCache
  \/ \E a \in CredArgs : TestConnectionStart(a)
  \/ \E i \in 1..Len(probes) : \E r \in HttpResponses(probes[i].apiKey) :
       TestConnectionFinish(i, r)
  \/ \E k \in CredKeys : SetEnv("RED_KEY", k)
  \/ UnsetEnv("RED_KEY")
  \/ \E c \in CredContents : WriteFile(ExplicitPath, c)

SpecCred == InitCred /\ [][NextCred]_vars

\* C6: a successful getResolvedApiKey for an id that has a cache entry returns the
\* cached value and leaves the cache alone, whatever the environment now holds; for an
\* id without an entry it returns the value resolved and validated against the current
\* environment and caches it; an entry is removed or replaced by no step other than
\* clearCache, which removes them all.
C6_CacheLifecycle ==
  [][/\ (last'.op = "getResolvedApiKey" /\ last'.status = "ok") =>
          IF last'.repo.id \in DOMAIN apiKeyCache
            THEN last'.key = apiKeyCache[last'.repo.id] /\ apiKeyCache' = apiKeyCache
            ELSE /\ ResolveAndValidate(last'.repo.apiKey, env).ok
                 /\ last'.key = ResolveAndValidate(last'.repo.apiKey, env).value
                 /\ apiKeyCache' = MapSet(apiKeyCache, last'.repo.id, last'.key)
     /\ IF last'.op = "clearCache"
          THEN apiKeyCache' = EmptyMap
          ELSE \A id \in DOMAIN apiKeyCache :
                 id \in DOMAIN apiKeyCache' /\ apiKeyCache'[id] = apiKeyCache[id]]_vars

\* C6 witness: getResolvedApiKey returned the cached key after RED_KEY was rotated
\* to another valid key
C6_Witness ==
  /\ last.op = "getResolvedApiKey" /\ last.status = "ok" /\ last.repo.id = "main"
  /\ last.key = "valid_key_1234567890"
  /\ EnvTruthy(env, "RED_KEY") /\ env["RED_KEY"] = "$&-key-1234567890"

\* C7: the message of every result of testConnection does not contain the
\* credential that the probe sent.
C7_NoCredentialInMessage ==
  last.op = "testConnection" => ~Includes(last.message, last.key)

\* C8: testConnection returns a result with success=false for every rejected
\* request and a result with success=true and the x-redmine-version header value for
\* every answered one; a failure to load the configuration, an unknown or disabled
\* repository and a credential that does not resolve or validate are thrown before
\* any request is made, and a result is only returned for a request that was made.
C8_ProbeResultOrThrow ==
  [][/\ last'.op = "testConnection:start" =>
          IF config = NoConfig /\ LoadConfigR(files, env).status # "ok"
            THEN /\ last'.thrown /\ probes' = probes
                 /\ last'.status = LoadConfigR(files, env).status
            ELSE LET t == IF last'.arg # Omitted THEN last'.arg[1]
                          ELSE config'.defaultRepositoryId
                     recs == {i \in 1..Len(config'.repositories) :
                                config'.repositories[i].id = t}
                 IN IF recs = {}
                      THEN last'.thrown /\ probes' = probes /\ last'.status = "not_found"
                      ELSE \A i \in recs :
                        IF ~config'.repositories[i].enabled
                          THEN /\ last'.thrown /\ probes' = probes
                               /\ last'.status = "disabled"
                        ELSE IF t \notin DOMAIN apiKeyCache
                                /\ ~ResolveAndValidate(config'.repositories[i].apiKey, env).ok
                          THEN /\ last'.thrown /\ probes' = probes
                               /\ last'.status \in {"resolve_error", "invalid_key"}
                        ELSE /\ ~last'.thrown /\ last'.status = "pending"
                             /\ Len(probes') = Len(probes) + 1
     /\ last'.op = "testConnection" =>
          /\ ~last'.thrown
          /\ Len(probes') = Len(probes) - 1
          /\ IF last'.resp[1].ok
               THEN /\ last'.success /\ last'.version = last'.resp[1].version
                    /\ last'.message = "Connection successful"
               ELSE /\ ~last'.success /\ last'.version = Omitted
                    /\ StartsWith(last'.message, "Connection failed: ")]_vars

\* C8 witness: a probe whose request timed out returned a failure result
C8_Witness ==
  /\ last.op = "testConnection" /\ ~last.thrown /\ ~last.success
  /\ last.resp = Given(HttpError("timeout of 5000ms exceeded"))
  /\ last.message = "Connection failed: timeout of 5000ms exceeded"

(***************************************************************************)
(* SpecField: name resolution. Trackers and priorities of one repository   *)
(* are resolved from the inputs of FieldInputs; a fetch settles with an    *)
(* enumeration of Enumerations, a body without the array, or a timeout.    *)
(***************************************************************************)
Entity(id, name) == [id |-> id, name |-> name]

BugFeature == <<Entity(1, "Bug"), Entity(2, "Feature")>>
BugBugfix == <<Entity(1, "Bug"), Entity(2, "Bugfix")>>
NumericNames == <<Entity(3, "5"), Entity(5, "0")>>
BugTwice == <<Entity(4, "Debug"), Entity(6, "BUG"), Entity(8, "Bug")>>

Enumerations(type) ==
  IF type = "tracker" THEN {BugBugfix, BugFeature} ELSE {NumericNames, BugTwice}

FieldResponses(type) ==
  {ArrayResponse(raw) : raw \in Enumerations(type)}
  \cup {MissingResponse, ErrorResponse("timeout of 10000ms exceeded")}

FieldInputs ==
  {Undefined, Num(7), Str(""), Str("Bug"), Str("bug"), Str(" BU "), Str("fix"),
   Str("5"), Str("1e1"), Str("0"), Str("-3"), Str("1.5"), Num(0)}

FieldTypesUsed == {"tracker", "priority"}

FieldLabel(type) == IF type = "tracker" THEN "Tracker" ELSE "Priority"

InitField == MgrInit(EmptyMap, NoFiles) /\ FieldInit

NextField ==
  \/ \E type \in FieldTypesUsed : \E v \in FieldInputs :
       ResolveField(type, "main", v, FieldLabel(type))
  \/ \E i \in 1..Len(calls) : \E r \in FieldResponses(calls[i].type) : FetchReturn(i, r)
  \/ ClearFieldCache

SpecField == InitField /\ [][NextField]_vars

\* the enumeration the last resolveField call was about: the one it looked the name
\* up in, or the cached one when it returned without a lookup
EnumerationAsked ==
  IF flast.entities # Omitted THEN flast.entities
  ELSE IF flast.outcome = "returned" /\ flast.repo \in DOMAIN cache[flast.type]
    THEN Given(cache[flast.type][flast.repo])
  ELSE Omitted

\* positions of the entries of enumeration ents whose name equals the trimmed input
\* of the last call case-insensitively
ExactEntries(ents) ==
  {i \in 1..Len(ents) : ToLowerCase(ents[i].name) = ToLowerCase(Trim(flast.value.s))}

\* C9 as claimed: whenever the enumeration has an entry whose name equals the trimmed
\* input case-insensitively, resolution returns the id of such an entry.
C9_AsClaimed ==
  (flast.op = "resolveField" /\ flast.value.t = "string" /\ EnumerationAsked # Omitted
     /\ ExactEntries(EnumerationAsked[1]) # {}) =>
    /\ flast.outcome = "returned"
    /\ \E i \in ExactEntries(EnumerationAsked[1]) :
         flast.result = Given(EnumerationAsked[1][i].id)

\* C9 amended: for a string input whose trimmed text Number() does not read as a
\* positive integer, whenever the enumeration looked up has an entry whose name equals
\* the trimmed input case-insensitively, resolution returns the id of the first such
\* entry, whatever other entries contain the input, and raises no error; a trimmed
\* text that Number() reads as a positive integer returns that integer without a
\* lookup, whatever the names of the enumeration.
C9_ExactMatchWins ==
  (flast.op = "resolveField" /\ flast.value.t = "string" /\ Trim(flast.value.s) # "") =>
    IF PositiveIntegerValue(Trim(flast.value.s)) # <<>>
      THEN /\ flast.outcome = "returned" /\ flast.entities = Omitted /\ ~flast.fetched
           /\ flast.result = PositiveIntegerValue(Trim(flast.value.s))
      ELSE (flast.entities # Omitted /\ ExactEntries(flast.entities[1]) # {}) =>
             /\ flast.outcome = "returned"
             /\ \E i \in ExactEntries(flast.entities[1]) :
                  /\ \A j \in ExactEntries(flast.entities[1]) : i <= j
                  /\ flast.result = Given(flast.entities[1][i].id)

\* C9 witness: 'Bug' resolved to 1 in an enumeration where 'Bugfix' contains it too
C9_Witness ==
  /\ flast.op = "resolveField" /\ flast.value = Str("Bug")
  /\ flast.entities = Given(BugBugfix)
  /\ flast.outcome = "returned" /\ flast.result = Given(1)

\* C10 as claimed: with [{1,'Bug'},{2,'Bugfix'}] the input 'bug' fails as ambiguous
\* with an error listing both names.
C10_AsClaimed ==
  (flast.op = "resolveField" /\ flast.value = Str("bug")
     /\ flast.entities = Given(BugBugfix)) =>
    /\ flast.outcome = "thrown" /\ flast.error = "ambiguous"
    /\ Includes(flast.message, "Bug, Bugfix")

\* C10 amended: with [{1,'Bug'},{2,'Bugfix'}] the input 'bug' equals the name 'Bug'
\* case-insensitively and resolves to 1; an input that both names contain and neither
\* equals, such as ' BU ', fails as ambiguous with an error listing both names.
C10_BugResolvesExactly ==
  (flast.op = "resolveField" /\ flast.entities = Given(BugBugfix)) =>
    /\ flast.value = Str("bug") => flast.outcome = "returned" /\ flast.result = Given(1)
    /\ flast.value = Str(" BU ") =>
         /\ flast.outcome = "thrown" /\ flast.error = "ambiguous"
         /\ flast.message = "Tracker ' BU ' is ambiguous. Possible matches: Bug, Bugfix"

\* C10 witness: 'bug' resolved to 1 in [{1,'Bug'},{2,'Bugfix'}]
C10_Witness ==
  /\ flast.op = "resolveField" /\ flast.value = Str("bug")
  /\ flast.entities = Given(BugBugfix)
  /\ flast.outcome = "returned" /\ flast.result = Given(1)

\* the entries of enumeration ents whose name contains the trimmed input of the last
\* call case-insensitively, in order
ContainingEntries(ents) ==
  SelectSeq(ents, LAMBDA entity :
    Includes(ToLowerCase(entity.name), ToLowerCase(Trim(flast.value.s))))

\* the three outcomes of the partial-match stage on enumeration ents
PartialStageOutcome(ents) ==
  LET hits == ContainingEntries(ents) IN
    IF Len(hits) = 1
      THEN flast.outcome = "returned" /\ flast.result = Given(hits[1].id)
    ELSE IF Len(hits) = 0
      THEN /\ flast.outcome = "thrown" /\ flast.error = "not_found"
           /\ flast.message = FieldLabel(flast.type) \o " '" \o flast.value.s
                                \o "' not found. Available values: "
                                \o Join(Names(ents), ", ")
    ELSE /\ flast.outcome = "thrown" /\ flast.error = "ambiguous"
         /\ flast.message = FieldLabel(flast.type) \o " '" \o flast.value.s
                              \o "' is ambiguous. Possible matches: "
                              \o Join(Names(hits), ", ")

\* C11 as claimed: whenever no entry's name equals the input case-insensitively, one
\* containing entry resolves to its id, none fails as 'not found' listing all names,
\* two or more fail as 'ambiguous' listing the matching names.
C11_AsClaimed ==
  (flast.op = "resolveField" /\ flast.value.t = "string" /\ EnumerationAsked # Omitted
     /\ ExactEntries(EnumerationAsked[1]) = {}) =>
    PartialStageOutcome(EnumerationAsked[1])

\* C11 amended: for a string input whose trimmed text is non-empty and is not read by
\* Number() as a positive integer, when no entry of the enumeration looked up has a
\* name equal to the trimmed input case-insensitively: exactly one entry whose name
\* contains the trimmed input case-insensitively resolves to that entry's id; none
\* fails with "<label> '<input>' not found. Available values: <all names>"; two or
\* more fail with "<label> '<input>' is ambiguous. Possible matches: <matching names>".
C11_PartialMatchRules ==
  (flast.op = "resolveField" /\ flast.value.t = "string" /\ Trim(flast.value.s) # ""
     /\ PositiveIntegerValue(Trim(flast.value.s)) = <<>>
     /\ flast.entities # Omitted /\ ExactEntries(flast.entities[1]) = {}) =>
    PartialStageOutcome(flast.entities[1])

\* C11 witness: 'fix' found no entry in [{1,'Bug'},{2,'Feature'}] and failed listing
\* both names
C11_Witness ==
  /\ flast.op = "resolveField" /\ flast.value = Str("fix")
  /\ flast.entities = Given(BugFeature)
  /\ flast.outcome = "thrown" /\ flast.error = "not_found"
  /\ flast.message = "Tracker 'fix' not found. Available values: Bug, Feature"

\* s is digits, optionally signed, optionally with a decimal fraction
NumericLooking(s) ==
  LET unsigned == IF Len(s) > 0 /\ Ch(s, 1) \in {"+", "-"} THEN From(s, 2) ELSE s
      dot == IndexOfCh(unsigned, ".", 1)
      intPart == IF dot = 0 THEN unsigned ELSE SubSeq(unsigned, 1, dot - 1)
      fracPart == IF dot = 0 THEN "0" ELSE From(unsigned, dot + 1)
  IN Len(intPart) > 0 /\ Len(fracPart) > 0 /\ AllDigits(intPart, 10)
       /\ AllDigits(fracPart, 10)

\* C12 as claimed: a call whose input is a number or a numeric-looking string (signed,
\* decimal or zero included) issues no enumeration fetch.
C12_AsClaimed ==
  (flast.value.t = "number"
     \/ (flast.value.t = "string" /\ NumericLooking(Trim(flast.value.s)))) =>
    ~flast.fetched

\* C12 amended: a call whose input is a number, or a string whose trimmed text Number()
\* reads as a positive integer, returns that number without issuing an enumeration
\* fetch and without consulting any enumeration, whatever the cache holds.
C12_PositiveIntegersNeverFetch ==
  (flast.value.t = "number"
     \/ (flast.value.t = "string" /\ PositiveIntegerValue(Trim(flast.value.s)) # <<>>)) =>
    /\ flast.op = "resolveField" /\ ~flast.fetched /\ flast.entities = Omitted
    /\ flast.outcome = "returned"
    /\ flast.result = IF flast.value.t = "number" THEN Given(flast.value.n)
                      ELSE PositiveIntegerValue(Trim(flast.value.s))

\* C12 witness: '5' resolved to 5 while nothing was cached for the repository and no
\* fetch was pending
C12_Witness ==
  /\ flast.op = "resolveField" /\ flast.value = Str("5") /\ flast.result = Given(5)
  /\ flast.repo \notin DOMAIN cache[flast.type] /\ calls = <<>> /\ ~flast.fetched

(***************************************************************************)
(* SpecFieldCache: two repositories and two field kinds, each pair with    *)
(* its own enumeration                                                     *)
(***************************************************************************)
CacheRepos == {"main", "dev"}
CacheTypes == {"tracker", "status"}

\* the id of 'Bug' in the enumeration of the pair, different for every pair
PairId(type, repo) ==
  (IF type = "tracker" THEN 1 ELSE 2) + (IF repo = "main" THEN 0 ELSE 2)

\* what the server of repo answers for the field kind
PairEnumeration(type, repo) ==
  <<Entity(PairId(type, repo), "Bug"), Entity(PairId(type, repo) + 10, "Bugfix")>>

PairResponses(type, repo) ==
  {ArrayResponse(PairEnumeration(type, repo)), MissingResponse,
   ErrorResponse("Request failed with status code 500")}

CacheInputs == {Str("Bug"), Str("fix"), Str("zzz"), Str("7")}

CacheLabel(type) == IF type = "tracker" THEN "Tracker" ELSE "Status"

InitFieldCache == MgrInit(EmptyMap, NoFiles) /\ FieldInit

NextFieldCache ==
  \/ \E type \in CacheTypes : \E repo \in CacheRepos : \E v \in CacheInputs :
       ResolveField(type, repo, v, CacheLabel(type))
  \/ \E i \in 1..Len(calls) : \E r \in PairResponses(calls[i].type, calls[i].repo) :
       FetchReturn(i, r)
  \/ ClearFieldCache

SpecFieldCache == InitFieldCache /\ [][NextFieldCache]_vars

\* the step is a resolveField call running up to its return, throw or fetch
CallStep == flast'.op \in {"resolveField", "resolveField:start"} /\ Len(calls') >= Len(calls)

\* the step is the settling of a pending fetch
FetchStep == Len(calls') < Len(calls)

\* a call for a pair whose enumeration is cached issues no fetch and, unless it
\* returns early, matches against the cached enumeration
CachedPairServed(type, repo) ==
  (repo \in DOMAIN cache[type] /\ CallStep /\ flast'.type = type /\ flast'.repo = repo) =>
    /\ calls' = calls /\ ~flast'.fetched /\ cache' = cache
    /\ EarlyReturn(flast'.value) = <<>> =>
         /\ flast'.entities = Given(cache[type][repo])
         /\ LET res == MatchEntities(cache[type][repo], flast'.value.s, CacheLabel(type))
            IN /\ flast'.outcome = res.outcome /\ flast'.result = res.result
               /\ flast'.error = res.error /\ flast'.message = res.message

\* the cache entry of a pair is written only by a successful fetch for that pair and
\* removed only by clearCache()
CachedPairStable(type, repo) ==
  /\ (repo \in DOMAIN cache[type] /\ repo \notin DOMAIN cache'[type]) =>
       flast'.op = "clearCache"
  /\ (repo \in DOMAIN cache'[type]
        /\ (repo \notin DOMAIN cache[type] \/ cache[type][repo] # cache'[type][repo])) =>
       /\ FetchStep /\ flast'.fetched /\ flast'.type = type /\ flast'.repo = repo
       /\ flast'.entities = Given(cache'[type][repo])

\* a fetch that ended in a rejection or a body without the array left the cache alone
FailedFetchCachesNothing ==
  (FetchStep /\ flast'.outcome = "thrown" /\ flast'.error \in {"unexpected", "network"}) =>
    cache' = cache

\* every cached enumeration is the one served for its own repository and field kind
CachedForOwnPair ==
  \A type \in FieldTypes : \A repo \in DOMAIN cache[type] :
    cache[type][repo] = PairEnumeration(type, repo)

SchemaIds == {"main", "", "Main", "a b", "ops_1-x"}
SchemaUrls == {"https://a.example.com", "https://a.example.com/", "https://a.example.com/api/"}

SchemaRecord(id, url) == [RepoRecord("main", TRUE) EXCEPT !.id = id, !.url = url]

SchemaRecords == {SchemaRecord(id, url) : id \in SchemaIds, url \in SchemaUrls}

\* raw repository r with the field left out
Without(r, field) == [f \in (DOMAIN r) \ {field} |-> r[f]]

SchemaLists ==
  {<<>>} \cup {<<r>> : r \in SchemaRecords}
  \cup {<<Without(SchemaRecord("main", "https://a.example.com"), field)>> :
          field \in {"secretSource", "enabled"}}
  \cup {<<SchemaRecord("main", "https://a.example.com"), r>> : r \in SchemaRecords}

SchemaDocs == {RawDoc(repos, Omitted) : repos \in SchemaLists}

SchemaEnvSettings ==
  {<<"REDMINE_URL", u>> : u \in LegacyUrls} \cup {<<"REDMINE_API_KEY", LegacyKey>>}

InitSchema == MgrInit(ExplicitEnv, NoFiles) /\ FieldInit

NextSchema ==
  \/ LoadConfig
  \/ GetConfig
  \/ \E d \in SchemaDocs : WriteFile(ExplicitPath, JsonFile(d))
  \/ RemoveFile(ExplicitPath)
  \/ \E s \in SchemaEnvSettings : SetEnv(s[1], s[2])
  \/ \E s \in SchemaEnvSettings : UnsetEnv(s[1])

SpecSchema == InitSchema /\ [][NextSchema]_vars

\* at least one repository, every id non-empty and made of a-z, 0-9, '-' and '_'
\* only, no url ending in '/'
WellFormedRepositories(repos) ==
  /\ Len(repos) >= 1
  /\ \A i \in 1..Len(repos) :
       /\ repos[i].id # ""
       /\ \A k \in 1..Len(repos[i].id) :
            Ch(repos[i].id, k) \in CharSet("abcdefghijklmnopqrstuvwxyz0123456789-_")
       /\ Len(repos[i].url) > 0 => Ch(repos[i].url, Len(repos[i].url)) # "/"

\* the raw document the last load validated, <<>> when it validated none: the json
\* content of the candidate it read, or the document built from the legacy variables
RawDocumentLoaded ==
  IF ~last.loaded THEN <<>>
  ELSE IF last.read # <<>> /\ files[last.read[1]].kind = "json"
    THEN <<files[last.read[1]].doc>>
  ELSE IF last.legacy
    THEN <<[configVersion |-> "1.0", defaultRepositoryId |-> "legacy",
            repositories |-> <<[id |-> "legacy", url |-> StripTrailingSlash(env["REDMINE_URL"])]>>]>>
  ELSE <<>>

\* C16: every document held as the active configuration, parsed from a file or
\* synthesized from the legacy variables, has at least one repository, every id
\* non-empty and matching ^[a-z0-9-_]+$, and no url ending in '/'; a load whose raw
\* document violates one of these fails on the schema and does not install it.
C16_ActiveDocumentWellFormed ==
  /\ config # NoConfig => WellFormedRepositories(config.repositories)
  /\ \A i \in 1..Len(RawDocumentLoaded) :
       ~WellFormedRepositories(RawDocumentLoaded[i].repositories) =>
         /\ last.thrown /\ last.status = "schema_error"
         /\ config # NoConfig =>
              \/ Len(config.repositories) # Len(RawDocumentLoaded[i].repositories)
              \/ \E k \in 1..Len(config.repositories) :
                   \/ config.repositories[k].id # RawDocumentLoaded[i].repositories[k].id
                   \/ config.repositories[k].url # RawDocumentLoaded[i].repositories[k].url

\* C16 witness: a file whose second repository has a url ending in '/' was rejected
\* at load while a document loaded earlier stayed active
C16_Witness ==
  /\ last.op = "loadConfig" /\ last.status = "schema_error" /\ last.read = <<ExplicitPath>>
  /\ files[ExplicitPath] =
       JsonFile(RawDoc(<<SchemaRecord("main", "https://a.example.com"),
                         SchemaRecord("ops_1-x", "https://a.example.com/api/")>>, Omitted))
  /\ config # NoConfig /\ config.repositories[1].id = "legacy"

\* C26: a repository entry that omits secretSource is accepted and gets secretSource
\* 'environment', and an entry that omits enabled is accepted and gets enabled = true.
C26_OmittedFieldsDefaulted ==
  \A field \in {"secretSource", "enabled"} :
    (/\ last.op = "loadConfig" /\ last.read = <<ExplicitPath>>
     /\ files[ExplicitPath] =
          JsonFile(RawDoc(<<Without(SchemaRecord("main", "https://a.example.com"), field)>>,
                          Omitted))) =>
      /\ ~last.thrown
      /\ config.repositories[1].secretSource = "environment"
      /\ config.repositories[1].enabled

(***************************************************************************)
(* SpecSource: a document whose repositories name every secret source      *)
(***************************************************************************)
SourceRecord(id, source, apiKey) ==
  [RepoRecord(id, TRUE) EXCEPT !.secretSource = source, !.apiKey = apiKey]

SourceDoc ==
  RawDoc(<<SourceRecord("main", "environment", "${RED_KEY}"),
           SourceRecord("vault", "vault", "${RED_KEY}"),
           SourceRecord("aws", "aws-secrets-manager", "arn:aws:secretsmanager:redmine"),
           SourceRecord("azure", "azure-keyvault", "${AZ_KEY}")>>,
         Given("main"))

SourceArgs == {Omitted, Given("vault"), Given("aws"), Given("azure")}

SourceEnvSettings ==
  {<<"RED_KEY", "valid_key_1234567890">>, <<"RED_KEY", "short">>,
   <<"AZ_KEY", "azure_key_1234567890">>}

InitSource ==
  /\ MgrInit(ExplicitEnv, [NoFiles EXCEPT ![ExplicitPath] = JsonFile(SourceDoc)])
  /\ FieldInit

NextSource ==
  \/ \E a \in SourceArgs : GetResolvedApiKey(a)
  \/ ClearCache
  \/ \E s \in SourceEnvSettings : SetEnv(s[1], s[2])
  \/ \E s \in SourceEnvSettings : UnsetEnv(s[1])

SpecSource == InitSource /\ [][NextSource]_vars

\* C17: resolving the credential of a repository whose secretSource is not
\* 'environment' fails at once: nothing is resolved from the environment, returned or
\* cached for such a repository.
C17_OnlyEnvironmentSourceResolves ==
  /\ (last.op = "getResolvedApiKey" /\ last.repo # NoRepo
        /\ last.repo.secretSource # "environment") =>
       last.thrown /\ last.key = ""
  /\ config # NoConfig =>
       \A i \in 1..Len(config.repositories) :
         config.repositories[i].secretSource # "environment" =>
           config.repositories[i].id \notin DOMAIN apiKeyCache

(***************************************************************************)
(* SpecResolve: SecretsResolver.resolve on inputs assembled from literal   *)
(* text and references, under changing environments                        *)
(***************************************************************************)
Lit(t) == [ref |-> FALSE, text |-> t]
Ref(n) == [ref |-> TRUE, text |-> n]

RECURSIVE Render(_)
\* the input string assembled from parts: a reference to n is written ${n}
Render(parts) ==
  IF parts = <<>> THEN ""
  ELSE (IF Head(parts).ref THEN "${" \o Head(parts).text \o "}" ELSE Head(parts).text)
         \o Render(Tail(parts))

\* SecretsResolver.resolve(Render(parts)) called from outside
ResolveValue(parts) ==
  LET r == Resolve(Render(parts), env) IN
    /\ last' = [LastBase EXCEPT !.op = "resolve", !.arg = Given(parts),
                  !.status = IF r.ok THEN "ok" ELSE "resolve_error",
                  !.thrown = ~r.ok, !.key = r.value, !.message = r.message]
    /\ UNCHANGED <<env, files, config, apiKeyCache, probes, fieldVars>>

ResolveInputs ==
  {<<>>,
   <<Lit("literal_key_abcdef")>>,
   <<Ref("A")>>,
   <<Lit("pre-"), Ref("A"), Lit("-suf")>>,
   <<Ref("A"), Ref("B")>>,
   <<Ref("B"), Lit(":"), Ref("A"), Lit(":"), Ref("B")>>,
   <<Lit("$"), Ref("B"), Lit("}")>>,
   <<Ref("a b")>>,
   <<Lit("key-"), Ref("api_key")>>,
   <<Ref("9KEY")>>,
   <<Lit("${A")>>,
   <<Lit("${}")>>,
   <<Lit("$A {B}")>>}

ResolveEnvSettings ==
  {<<"A", "">>, <<"A", "alpha$&">>, <<"A", "${B}">>, <<"A", "alpha_key_1234567890">>,
   <<"B", "beta">>, <<"a b", "spaced">>}

InitResolve == MgrInit(EmptyMap, NoFiles) /\ FieldInit

NextResolve ==
  \/ \E parts \in ResolveInputs : ResolveValue(parts)
  \/ \E s \in ResolveEnvSettings : SetEnv(s[1], s[2])
  \/ \E s \in ResolveEnvSettings : UnsetEnv(s[1])

SpecResolve == InitResolve /\ [][NextResolve]_vars

\* the names referenced in parts that the environment does not define, in order
MissingRefs(parts) ==
  LET missing == SelectSeq(parts, LAMBDA part : part.ref /\ part.text \notin DOMAIN env)
  IN [i \in 1..Len(missing) |-> missing[i].text]

RECURSIVE Substituted(_)
\* parts with every reference replaced by the value of its variable
Substituted(parts) ==
  IF parts = <<>> THEN ""
  ELSE (IF Head(parts).ref THEN env[Head(parts).text] ELSE Head(parts).text)
         \o Substituted(Tail(parts))

\* C18: resolve fails on the empty input; otherwise it fails exactly when a referenced
\* variable is undefined, with one error naming every undefined referenced variable
\* and without a partially substituted value; when all are defined it returns the
\* input with each placeholder replaced by the variable's exact value.
C18_ResolveAllOrNothing ==
  last.op = "resolve" =>
    IF Render(last.arg[1]) = ""
      THEN last.thrown /\ last.message = "Cannot resolve empty value"
    ELSE IF MissingRefs(last.arg[1]) # <<>>
      THEN /\ last.thrown /\ last.key = ""
           /\ last.message = "Environment variable(s) not defined: "
                               \o Join(MissingRefs(last.arg[1]), ", ")
                               \o ". Set them in your .env file or environment."
           /\ \A i \in 1..Len(MissingRefs(last.arg[1])) :
                Includes(last.message, MissingRefs(last.arg[1])[i])
    ELSE ~last.thrown /\ last.key = Substituted(last.arg[1])

\* C18 witness: '${B}:${A}:${B}' with A defined and B undefined failed naming B, the
\* value of A not being returned
C18_Witness ==
  /\ last.op = "resolve"
  /\ Render(last.arg[1]) = "${B}:${A}:${B}"
  /\ "A" \in DOMAIN env /\ "B" \notin DOMAIN env
  /\ last.thrown /\ last.key = "" /\ Includes(last.message, "not defined: B, B.")

\* n matches [A-Z_][A-Z0-9_]*
UpperCaseName(n) ==
  /\ Len(n) >= 1
  /\ Ch(n, 1) \in CharSet("ABCDEFGHIJKLMNOPQRSTUVWXYZ_")
  /\ \A i \in 2..Len(n) : Ch(n, i) \in CharSet("ABCDEFGHIJKLMNOPQRSTUVWXYZ0123456789_")

\* C23: resolve treats as a placeholder only ${NAME} with NAME matching
\* [A-Z_][A-Z0-9_]*: a non-empty value none of whose ${...} groups holds such a name
\* is returned unchanged and raises no missing-variable error.
C23_OnlyUpperCaseNamesResolved ==
  (last.op = "resolve" /\ Render(last.arg[1]) # ""
     /\ \A i \in 1..Len(last.arg[1]) :
          last.arg[1][i].ref => ~UpperCaseName(last.arg[1][i].text)) =>
    ~last.thrown /\ last.key = Render(last.arg[1])

(***************************************************************************)
(* SpecValidate: SecretsResolver.validate on keys assembled from a head, a *)
(* middle and a tail, so that every signature occurs both at the start and *)
(* in the interior of a key                                                *)
(***************************************************************************)
KeyHeads ==
  {"", "sk-", "your_", "Your", "EXAMPLE-", "test_", "dummy", "placeholder", "xxX", "xx",
   "changeme", "replace-me", "replace me", "Replace_Me", "<k>", "[]"}
KeyMiddles == {"", "_test_", "your_", "xxxx", "<api>", "[api]", "<>", "${V}", "example"}
KeyTails == {"1234567890abcdef", "key"}

ValidateInputs ==
  {h \o m \o t : h \in KeyHeads, m \in KeyMiddles, t \in KeyTails}
  \cup {"your_api_key_here_1234567890"}

\* SecretsResolver.validate(apiKey) called from outside
ValidateKey(apiKey) ==
  LET v == Validate(apiKey) IN
    /\ last' = [LastBase EXCEPT !.op = "validate", !.arg = Given(apiKey),
                  !.status = v.kind, !.success = v.valid, !.message = v.error]
    /\ UNCHANGED <<env, files, config, apiKeyCache, probes, fieldVars>>

InitValidate == MgrInit(EmptyMap, NoFiles) /\ FieldInit

NextValidate == \E k \in ValidateInputs : ValidateKey(k)

SpecValidate == InitValidate /\ [][NextValidate]_vars

PlaceholderMessage ==
  "API key appears to be a placeholder or example value. Replace it with your actual API key."

\* k holds '<', one or more characters other than '>', and '>'
HasAngleWrapped(k) ==
  \E i, j \in 1..Len(k) :
    /\ j > i + 1 /\ Ch(k, i) = "<" /\ Ch(k, j) = ">"
    /\ \A m \in (i + 1)..(j - 1) : Ch(k, m) # ">"

\* k holds '[' and a later ']'
HasBracketWrapped(k) == \E i, j \in 1..Len(k) : j > i /\ Ch(k, i) = "[" /\ Ch(k, j) = "]"

\* k contains one of the claimed signatures anywhere, in any letter case
ContainsSignature(k) ==
  \/ \E word \in {"your_", "example", "test", "dummy", "placeholder", "changeme",
                  "replace_me", "xxx"} : Includes(ToLowerCase(k), word)
  \/ HasAngleWrapped(k) \/ HasBracketWrapped(k)

\* k begins with one of the words, in any letter case
BeginsWithSignature(k) ==
  \E word \in {"your", "example", "test", "dummy", "placeholder", "changeme",
               "replaceme", "replace_me", "replace-me", "xxx"} :
    Len(k) >= Len(word) /\ ToLowerCase(SubSeq(k, 1, Len(word))) = word

\* the last call validated a key of 16 or more characters without '${'
ValidatedLongKey ==
  /\ last.op = "validate" /\ Len(last.arg[1]) >= MinKeyLength
  /\ ~Includes(last.arg[1], "${")

MaskMaxLen == 6

MaskAlphabet == {"a", "*"}

RECURSIVE MaskStrings(_)
\* the strings over MaskAlphabet of at most n characters
MaskStrings(n) ==
  IF n = 0 THEN {""}
  ELSE LET shorter == MaskStrings(n - 1) IN
         shorter \cup {t \o c : t \in shorter, c \in MaskAlphabet}

MaskInputs == MaskStrings(MaskMaxLen)

\* SecretsResolver.mask(apiKey) called from outside
MaskKey(apiKey) ==
  /\ last' = [LastBase EXCEPT !.op = "mask", !.arg = Given(apiKey), !.key = Mask(apiKey)]
  /\ UNCHANGED <<env, files, config, apiKeyCache, probes, fieldVars>>

\* mask applied to the value the previous mask call returned
MaskMasked ==
  /\ last.op = "mask"
  /\ MaskKey(last.key)

InitMask == MgrInit(EmptyMap, NoFiles) /\ FieldInit

NextMask ==
  \/ \E k \in MaskInputs : MaskKey(k)
  \/ MaskMasked

SpecMask == InitMask /\ [][NextMask]_vars

\* the value mask returned is the first four characters and '***' for an input of
\* more than four characters, '****' otherwise
MaskedAsSpecified ==
  last.op = "mask" =>
    last.key = IF Len(last.arg[1]) > 4 THEN SubSeq(last.arg[1], 1, 4) \o "***"
               ELSE "****"

\* a call of mask on the value the previous call returned returns that value again
MaskOfMaskUnchanged ==
  (last.op = "mask" /\ last'.op = "mask" /\ last'.arg = Given(last.key)) =>
    last'.key = last.key

RedactSecrets ==
  {"abc123def456789", "key.with.dots.123456", "$&-key-1234567890", "secret1234",
   "secret1234567890"}

RedactTexts ==
  {pre \o secret \o post :
     pre \in {"key "}, secret \in RedactSecrets, post \in {"", " rejected"}}
  \cup {"No secrets here"}

RedactLists ==
  {<<a>> : a \in RedactSecrets}
  \cup {pair \in RedactSecrets \X RedactSecrets : pair[1] # pair[2]}

\* SecretsResolver.redactFromText(text, secrets) called from outside
RedactText(text, secrets) ==
  /\ last' = [LastBase EXCEPT !.op = "redactFromText",
                !.arg = Given([text |-> text, secrets |-> secrets]),
                !.key = RedactFromText(text, secrets)]
  /\ UNCHANGED <<env, files, config, apiKeyCache, probes, fieldVars>>

InitRedact == MgrInit(EmptyMap, NoFiles) /\ FieldInit

NextRedact == \E text \in RedactTexts : \E secrets \in RedactLists : RedactText(text, secrets)

SpecRedact == InitRedact /\ [][NextRedact]_vars

\* C21: when the text holds the secret verbatim, the redacted text holds no occurrence
\* of the secret and at least one occurrence of mask(secret), whatever characters the
\* secret is made of.
C21_RedactedTextHidesSecret ==
  (last.op = "redactFromText" /\ Len(last.arg[1].secrets) = 1
     /\ Includes(last.arg[1].text, last.arg[1].secrets[1])) =>
    /\ ~Includes(last.key, last.arg[1].secrets[1])
    /\ Includes(last.key, Mask(last.arg[1].secrets[1]))

\* C22: for two secrets of more than 4 characters each, the redacted text is the same
\* whichever secret is listed first, and neither secret occurs in it.
C22_RedactOrderIndependent ==
  (last.op = "redactFromText" /\ Len(last.arg[1].secrets) = 2
     /\ Len(last.arg[1].secrets[1]) > 4 /\ Len(last.arg[1].secrets[2]) > 4) =>
    /\ last.key = RedactFromText(last.arg[1].text,
                                 <<last.arg[1].secrets[2], last.arg[1].secrets[1]>>)
    /\ ~Includes(last.key, last.arg[1].secrets[1])
    /\ ~Includes(last.key, last.arg[1].secrets[2])

(***************************************************************************)
(* SpecKeyCheck: validate and resolveAndValidate on values that break      *)
(* several rules at once                                                   *)
(***************************************************************************)
KeyCheckInputs ==
  {<<>>,
   <<Lit("short")>>,
   <<Lit("your_key")>>,
   <<Lit("${V")>>,
   <<Lit("test_${V")>>,
   <<Lit("your_${V_1234567890")>>,
   <<Lit("<${x>_1234567890abc")>>,
   <<Lit("your_api_key_here_1234567890")>>,
   <<Lit("valid_key_1234567890")>>,
   <<Ref("V")>>,
   <<Lit("example_"), Ref("V")>>,
   <<Ref("V"), Lit("-"), Ref("W")>>}

KeyCheckEnvSettings ==
  {<<"V", "short">>, <<"V", "valid_key_1234567890">>, <<"V", "${W}_1234567890abcdef">>,
   <<"V", "your_${W_1234567890">>, <<"W", "w">>}

\* SecretsResolver.resolveAndValidate(Render(parts)) called from outside
ResolveAndValidateValue(parts) ==
  LET r == ResolveAndValidate(Render(parts), env) IN
    /\ last' = [LastBase EXCEPT !.op = "resolveAndValidate", !.arg = Given(parts),
                  !.status = r.kind, !.thrown = ~r.ok, !.key = r.value,
                  !.message = r.message]
    /\ UNCHANGED <<env, files, config, apiKeyCache, probes, fieldVars>>

InitKeyCheck == MgrInit(EmptyMap, NoFiles) /\ FieldInit

NextKeyCheck ==
  \/ \E parts \in KeyCheckInputs : ValidateKey(Render(parts))
  \/ \E parts \in KeyCheckInputs : ResolveAndValidateValue(parts)
  \/ \E s \in KeyCheckEnvSettings : SetEnv(s[1], s[2])
  \/ \E s \in KeyCheckEnvSettings : UnsetEnv(s[1])

SpecKeyCheck == InitKeyCheck /\ [][NextKeyCheck]_vars

UnresolvedMessage ==
  "API key contains unresolved environment variable reference. Ensure all referenced variables are defined."

\* the error the rules give key k when applied in the order length, '${', placeholder
\* signature; for a key that passes the first two rules, the error it was given
FirstRuleError(k, given) ==
  IF Len(k) < 16
    THEN "API key too short (" \o NatToStr(Len(k)) \o " chars, minimum 16 required)"
  ELSE IF Includes(k, "${") THEN UnresolvedMessage
  ELSE given

ReloadDocMain == RawDoc(<<RepoRecord("main", TRUE)>>, Omitted)
ReloadDocDev == RawDoc(<<RepoRecord("dev", TRUE)>>, Omitted)

ReloadContents ==
  {JsonFile(ReloadDocMain), JsonFile(ReloadDocDev), JsonFile(InvalidDocFor(ExplicitPath)),
   Garbage}

ReloadEnvSettings ==
  {<<"REDMINE_URL", "https://legacy.example.com">>, <<"REDMINE_API_KEY", LegacyKey>>}

ReloadResponses == {HttpOk(Omitted), HttpError("timeout of 5000ms exceeded")}

InitReload ==
  /\ MgrInit(MapSet(ExplicitEnv, "RED_KEY", "valid_key_1234567890"), NoFiles)
  /\ FieldInit

NextReload ==
  \/ LoadConfig
  \/ GetConfig
  \/ GetRepository(Omitted)
  \/ GetResolvedApiKey(Omitted)
  \/ TestConnectionStart(Omitted)
  \/ \E i \in 1..Len(probes) : \E r \in ReloadResponses : TestConnectionFinish(i, r)
  \/ \E c \in ReloadContents : WriteFile(ExplicitPath, c)
  \/ RemoveFile(ExplicitPath)
  \/ \E s \in ReloadEnvSettings : SetEnv(s[1], s[2])
  \/ \E s \in ReloadEnvSettings : UnsetEnv(s[1])

SpecReload == InitReload /\ [][NextReload]_vars

\* the step is a call of getConfig, getRepository, getResolvedApiKey or testConnection
ReaderStep ==
  last'.op \in {"getConfig", "getRepository", "getResolvedApiKey", "testConnection:start"}

\* C25 as claimed: after a failed load no document is active.
C25_AsClaimed == (last.op = "loadConfig" /\ last.thrown) => config = NoConfig

\* C25 amended: discovery runs only in loadConfig and in a call made while no document
\* is active: while a document is active, getConfig, getRepository, getResolvedApiKey
\* and testConnection use it without discovery, and changes to the candidate files or
\* to the legacy variables leave it active until loadConfig is invoked again; a
\* successful loadConfig replaces it; a failed load leaves active what was active
\* before it, so a call after a failed first load runs discovery again, and a call
\* after a failed reload is served the document loaded earlier.
C25_LoadedOnce ==
  [][/\ (config # NoConfig /\ last'.op # "loadConfig") => config' = config
     /\ (config # NoConfig /\ ReaderStep) =>
          /\ ~last'.loaded
          /\ last'.repo # NoRepo => last'.repo = config.repositories[1]
     /\ (config = NoConfig /\ ReaderStep) =>
          /\ last'.loaded
          /\ config' # NoConfig <=> last'.status \notin {"parse_error", "schema_error", "no_config"}
     /\ last'.op = "loadConfig" =>
          /\ last'.loaded
          /\ last'.thrown => config' = config
          /\ ~last'.thrown => config' # NoConfig]_vars

\* C25 witness: the file was replaced by one the schema rejects, loadConfig failed on
\* it, and getRepository() was then served the record of the document loaded before
C25_Witness ==
  /\ last.op = "getRepository" /\ last.status = "ok" /\ ~last.loaded
  /\ last.repo = RepoRecord("main", TRUE)
  /\ files[ExplicitPath] = JsonFile(InvalidDocFor(ExplicitPath))
  /\ config = SchemaParse(ReloadDocMain).doc

(***************************************************************************)
(* SpecRotate: the credential of repository 'main' is changed in the file  *)
(* and the file is loaded again                                            *)
(***************************************************************************)
RotatedKeys == {"${RED_KEY}", "literal_key_abcdef123456", "rotated_key_654321fedcba"}

RotateDoc(apiKey) ==
  RawDoc(<<[RepoRecord("main", TRUE) EXCEPT !.apiKey = apiKey]>>, Given("main"))

RotateArgs == {Omitted, Given("main")}

InitRotate ==
  /\ MgrInit(MapSet(ExplicitEnv, "RED_KEY", "valid_key_1234567890"),
             [NoFiles EXCEPT ![ExplicitPath] = JsonFile(RotateDoc("${RED_KEY}"))])
  /\ FieldInit

NextRotate ==
  \/ LoadConfig
  \/ \E a \in RotateArgs : GetResolvedApiKey(a)
  \/ ClearCache
  \/ \E k \in RotatedKeys : WriteFile(ExplicitPath, JsonFile(RotateDoc(k)))

SpecRotate == InitRotate /\ [][NextRotate]_vars

\* C28: the credential getResolvedApiKey returns for a repository is the one resolved
\* from the credentialSpec the active document gives that repository, also when an
\* earlier document gave the same id another credentialSpec.
C28_CredentialOfActiveDocument ==
  (last.op = "getResolvedApiKey" /\ last.status = "ok") =>
    last.key = ResolveAndValidate(last.repo.apiKey, env).value

(***************************************************************************)
(* SpecFieldRace: up to MaxRacing tracker calls are suspended at the       *)
(* network call at the same time                                           *)
(***************************************************************************)
MaxRacing == 2

RaceInputs == {Str("Bug"), Str("fix")}

InitFieldRace == MgrInit(EmptyMap, NoFiles) /\ FieldInit

NextFieldRace ==
  \/ \E repo \in CacheRepos : \E v \in RaceInputs :
       ResolveFieldUpTo(MaxRacing, "tracker", repo, v, "Tracker")
  \/ \E i \in 1..Len(calls) : \E r \in PairResponses("tracker", calls[i].repo) :
       FetchReturn(i, r)
  \/ ClearFieldCache

SpecFieldRace == InitFieldRace /\ [][NextFieldRace]_vars

\* C27: among the calls suspended at the network call, no two are for the same
\* repository and field kind: concurrent calls that start with an empty cache issue at
\* most one enumeration fetch for the pair.
C27_OneFetchPerPair ==
  \A i, j \in 1..Len(calls) :
    (calls[i].type = calls[j].type /\ calls[i].repo = calls[j].repo) => i = j

\* C30: when a fetch issued before clearCache() settles right after it, its
\* enumeration is not stored in the cache, and a call for the pair that starts
\* afterwards is not served from the cache.
C30_ClearBeatsPendingFetch ==
  [][(flast.op = "clearCache" /\ Len(calls') < Len(calls)) =>
       \A type \in FieldTypes : DOMAIN cache'[type] = {}]_vars

(***************************************************************************)
(* SpecTool: create-issue, update-issue and bulk-update tool calls, one    *)
(* after the other, against a tracker whose answers vary                   *)
(***************************************************************************)
ToolArgs(name, repositoryId, subject, project, tracker, status, priority, issueIds) ==
  [name |-> name, repository_id |-> repositoryId, subject |-> subject,
   project_id |-> project, tracker_id |-> tracker, status_id |-> status,
   priority_id |-> priority, issue_id |-> Head(issueIds), issue_ids |-> issueIds]

CreateCalls ==
  {ToolArgs("create", Omitted, "Fix login", Num(1), tracker, status, priority, <<101>>) :
     tracker \in {Undefined, Str("Bug"), Str("zzz")}, status \in {Undefined, Str("bu")},
     priority \in {Undefined, Num(3), Str("Bug")}}
  \cup {ToolArgs("create", Omitted, "", Num(1), Str("zzz"), Undefined, Undefined, <<101>>),
        ToolArgs("create", Omitted, "Fix login", Undefined, Str("zzz"), Undefined, Undefined,
                 <<101>>)}

UpdateCalls ==
  {ToolArgs("update", Omitted, "", Undefined, Undefined, status, priority, <<101>>) :
     status \in {Undefined, Str("Bug"), Str("bu")},
     priority \in {Undefined, Str("zzz"), Str("Bug")}}

BulkCalls ==
  {ToolArgs("bulk", repositoryId, "", Undefined, Undefined, status, Undefined, issueIds) :
     repositoryId \in {Omitted, Given("qa")},
     status \in {Undefined, Str("Bug"), Str("bu"), Str("zzz")},
     issueIds \in {<<101>>, <<101, 102>>}}

ToolCalls == CreateCalls \cup UpdateCalls \cup BulkCalls

ToolResponses ==
  {ToolOk, ToolFail(401, "Request failed with status code 401"),
   ToolFail(500, "Request failed with status code 500")}

InitTool ==
  /\ MgrInit(MapSet(ExplicitEnv, "RED_KEY", "valid_key_1234567890"),
             [NoFiles EXCEPT ![ExplicitPath] = JsonFile(CredDoc)])
  /\ FieldInit

NextTool ==
  \/ \E args \in ToolCalls : ToolBegin(args)
  \/ \E r \in ToolResponses : ToolBeforeReturn(r)
  \/ \E type \in FieldTypes : \E r \in PairResponses(type, "main") :
       tool.stage = "resolving" /\ calls[1].type = type /\ ToolFetchReturn(r)
  \/ \E r \in ToolResponses : ToolWriteReturn(r)
  \/ \E r \in ToolResponses : ToolAfterReturn(r)
  \/ ClearFieldCache

SpecTool == InitTool /\ [][NextTool]_vars

\* C29: when a resolveFieldId call of a create-issue, update-issue or bulk-update
\* tool call threw (name not found, name ambiguous, enumeration fetch failed or
\* malformed), the tool call has ended with a protocol error and has sent no POST
\* and no PUT.
C29_FailedResolutionNeverWrites ==
  (\E i \in 1..Len(tool.log) : tool.log[i].outcome = "thrown") =>
    /\ tool.stage = "done"
    /\ tool.status = "error"
    /\ tool.error.kind = "mcp"
    /\ tool.requests = <<>>

\* C29 witness: a create-issue call resolved its tracker name, then its status name
\* was ambiguous
C29_Witness ==
  /\ tool.kind = "create"
  /\ Len(tool.log) = 2
  /\ tool.log[1] = [type |-> "tracker", outcome |-> "returned", error |-> ""]
  /\ tool.log[2] = [type |-> "status", outcome |-> "thrown", error |-> "ambiguous"]
  /\ tool.status = "error"

====
